---- MODULE Spec2Model ----
(***************************************************************************)
(* Search and constraint-satisfaction engine of genetic-algorithms-vis.    *)
(* Every algorithm is a generator: one action of the model is one advance  *)
(* of the generator (from one yield to the next yield or to its return).   *)
(* The record last yielded is kept in a *_rec variable.                    *)
(***************************************************************************)
EXTENDS Integers, Sequences, FiniteSets, TLC

(***************************************************************************)
(* Bounds of the model                                                     *)
(***************************************************************************)
\* local-search states are 0..MaxX
MaxX == 2
\* costs of local-search states are 0..MaxCost
MaxCost == 3
\* maxSideways is drawn from 0..MaxSidewaysB
MaxSidewaysB == 2
\* maxRestarts is drawn from 0..MaxRestartsB
MaxRestartsB == 1
\* a run is followed until its evaluations counter reaches MaxEvals
MaxEvals == 10
\* beamWidth is drawn from 1..MaxBeamWidth
MaxBeamWidth == 2
\* maxGenerations is drawn from 0..MaxGenB
MaxGenB == 3
\* startingPopulationSize is drawn from 1..MaxPopB
MaxPopB == 3
\* the board size of a constructive search is drawn from 1..MaxN
MaxN == 4
\* maxIterations of a constructive search is drawn from 0..MaxIterB
MaxIterB == 3
\* the small Sudoku grids have sizes up to MaxSudokuN
MaxSudokuN == 4
\* the rows of a generated Sudoku grid are shifted by 0..MaxShift
MaxShift == 1
\* the cell that generate empties is one of the cells 0..MaxFirstCell
MaxFirstCell == 8
\* a generator driven by the application yields up to MaxRecords records
\* before its last ones
MaxRecords == 3
\* runBatch is called with a batchSize of 1..MaxBatch
MaxBatch == 3
\* the city maps that randomState can draw are 1..MaxMaps, the tours 1..MaxTours
MaxMaps == 3
MaxTours == 2
\* the blind searches run on TSP with up to MaxCities cities
MaxCities == 3
\* the propagating searches run on boards of 1..MaxQueens queens
MaxQueens == 5

VARIABLES
    \* ---- the Problem handed to a local-search algorithm (an input)
    landscape,      \* State.cost of every state
    topology,       \* shape of State.getNeighbors()
    hasGoal,        \* FALSE: problem.isSolution never holds (TSP, plateau mock)
    \* ---- hillClimbing (algorithms.js 6-84)
    hc_maxSideways, hc_maxRestarts, hc_tolerance,
    hc_pc,          \* where the generator is suspended
    hc_current, hc_restarts, hc_sidewaysMoves, hc_evaluations,
    hc_rec,         \* the record last yielded
    hc_prev,        \* ghost: the state that the last accepted move replaced
    hc_initialNull, \* initialState is null: the first state comes from randomState
    hc_draws,       \* ghost: calls of problem.randomState so far
    hc_streak,      \* ghost: sideways moves accepted since the last Improved
                    \* move, restart or start
    hc_seen,        \* ghost: the <<current, sidewaysMoves, restarts>> with which
                    \* the inner loop (line 19) was entered before
    \* ---- simulatedAnnealing (algorithms.js 243-301)
    sa_coolingRate, \* <<p, q>> is the rate p/q
    sa_temp,        \* temp, <<n, d>> is the temperature n/d
    sa_pc, sa_current, sa_evaluations,
    sa_rec,         \* the record last yielded, with the temperature of its note
    sa_samples,     \* ghost: number of neighbour-sampling steps so far
    sa_prevTemp,    \* ghost: temperature used at the sampling step before the last
    sa_next,        \* ghost: the neighbour that the last sampling step drew
    \* ---- localBeamSearch (algorithms.js 303-452)
    beam_width, beam_variant, beam_maxGenerations, beam_maxSideways, beam_maxRestarts,
    beam_pc, beam_population, beam_best, beam_bestSoFar, beam_sidewaysMoves,
    beam_gen, beam_restarts, beam_evaluations,
    beam_rec,       \* the record last yielded
    \* ---- geneticAlgorithm (algorithms.js 454-552)
    ga_size,        \* startingPopulationSize
    ga_mutationRate, ga_cullRate,   \* in percent
    ga_elitism, ga_maxGenerations,
    ga_pc, ga_population, ga_best, ga_gen, ga_evaluations,
    ga_rec,         \* the record last yielded
    ga_prevBest,    \* ghost: the best state of the record before the last
    \* ---- constructive search (constructive-algorithms.js)
    csp_alg,        \* bfs, dfs, backtracking, forwardChecking or arcConsistency
    csp_problem,    \* problem.id: n-queens or sudoku
    csp_size,       \* params.size
    csp_maxIterations, csp_heuristic,   \* params.maxIterations, variableHeuristic
    csp_pc,         \* where the generator is suspended
    csp_frontier,   \* queue (bfs) or stack (the others), in array order
    csp_current,    \* the node taken off the frontier last
    csp_loop,       \* the value loop of forwardChecking / arcConsistency
    csp_evaluations,
    csp_steps,      \* nodes taken off the frontier (steps; a ghost where the
                    \* algorithm does not count them)
    csp_rec,        \* the record last yielded
    csp_trace,      \* ghost: the states yielded so far, in order, with the kind
                    \* of record ("node" or "pruned")
    \* ---- a pure function under evaluation
    fn_pc,          \* "off", "new" (argument chosen) or "done" (result stored)
    fn_arg, fn_out,
    \* ---- the application driving a generator (App.jsx)
    drv_records,    \* the records the generator yields, in order, before it returns
    drv_single,     \* the application advanced with step()
    drv_batch,      \* the application advanced with runBatch(batchSize)
    \* ---- two generators created on TSPProblem
    par_params,     \* instance -> the params object it was created with
    par_cities,     \* params object -> its cities property
    par_draws,      \* instance -> what its Math.random() draws generate
    par_recs,       \* instance -> the record it yielded
    \* ---- geneticAlgorithm on state objects (identity matters)
    obj_cfg,        \* startingPopulationSize, mutationRate, elitism, maxGenerations
    obj_pc, obj_gen,
    obj_heap,       \* object -> its representation now
    obj_population, \* the population: a sequence of objects
    obj_emitted,    \* ghost: <<object, representation>> for every object a
                    \* record has carried, as it was when the record was yielded
    \* ---- stochasticHillClimbing (algorithms.js 86-241)
    shc_variant,    \* standard, weighted or firstChoice
    shc_maxSideways, shc_maxRestarts, shc_tolerance,
    shc_pc,         \* where the generator is suspended
    shc_current, shc_restarts, shc_sidewaysMoves,
    shc_rec,        \* the record last yielded
    shc_resumed,    \* ghost: sidewaysMoves at each resumption of the search
                    \* from a state drawn by a restart, in order
    shc_streak,     \* ghost: sideways moves accepted since the last Improved
                    \* move, restart or start
    \* ---- the propagating searches with the domains arrays as objects
    frm_pc,
    frm_heap,       \* domains array (by its index) -> its contents now
    frm_current,    \* the node: the state as it was built and its domains array
    frm_stack,      \* the states on the stack, built the same way
    frm_loop,       \* the variable of the value loop and its index
    \* ---- BenchmarkRunner (core/benchmark.js)
    bm_pc,            \* constructed, suspended at the await, or resolved
    bm_supportsCSP,   \* problem.supportsCSP
    bm_isRunning,
    bm_cancelFlag,
    bm_seed,          \* i of the seed loop
    bm_config,        \* index of config in validConfigs
    bm_completedRuns,
    bm_result,        \* what the promise of run() resolved to
    bm_cancelledAt    \* <<completedRuns>> when cancel() first arrived during run()

problemVars == <<landscape, topology, hasGoal>>
hcVars == <<hc_maxSideways, hc_maxRestarts, hc_tolerance, hc_pc, hc_current,
            hc_restarts, hc_sidewaysMoves, hc_evaluations, hc_rec, hc_prev, hc_seen,
            hc_initialNull, hc_draws, hc_streak>>
saVars == <<sa_coolingRate, sa_temp, sa_pc, sa_current, sa_evaluations, sa_rec,
            sa_samples, sa_prevTemp, sa_next>>
beamVars == <<beam_width, beam_variant, beam_maxGenerations, beam_maxSideways,
              beam_maxRestarts, beam_pc, beam_population, beam_best, beam_bestSoFar,
              beam_sidewaysMoves, beam_gen, beam_restarts, beam_evaluations, beam_rec>>
gaVars == <<ga_size, ga_mutationRate, ga_cullRate, ga_elitism, ga_maxGenerations,
            ga_pc, ga_population, ga_best, ga_gen, ga_evaluations, ga_rec, ga_prevBest>>
cspVars == <<csp_alg, csp_problem, csp_size, csp_maxIterations, csp_heuristic, csp_pc, csp_frontier,
             csp_current, csp_loop, csp_evaluations, csp_steps, csp_rec, csp_trace>>
fnVars == <<fn_pc, fn_arg, fn_out>>
\* what no algorithm touches
drvVars == <<drv_records, drv_single, drv_batch>>
parVars == <<par_params, par_cities, par_draws, par_recs>>
objVars == <<obj_cfg, obj_pc, obj_gen, obj_heap, obj_population, obj_emitted>>
shcVars == <<shc_variant, shc_maxSideways, shc_maxRestarts, shc_tolerance, shc_pc,
             shc_current, shc_restarts, shc_sidewaysMoves, shc_rec, shc_resumed,
             shc_streak>>
frmVars == <<frm_pc, frm_heap, frm_current, frm_stack, frm_loop>>
bmVars == <<bm_pc, bm_supportsCSP, bm_isRunning, bm_cancelFlag, bm_seed, bm_config,
           bm_completedRuns, bm_result, bm_cancelledAt>>
moreVars == <<frmVars, bmVars>>
extraVars == <<fnVars, drvVars, parVars, objVars, shcVars, moreVars>>
vars == <<problemVars, hcVars, saVars, beamVars, gaVars, cspVars, extraVars>>
\* one generator runs at a time: what a run of each algorithm leaves alone
exceptHC == <<saVars, beamVars, gaVars, cspVars, extraVars>>
exceptSA == <<hcVars, beamVars, gaVars, cspVars, extraVars>>
exceptBeam == <<hcVars, saVars, gaVars, cspVars, extraVars>>
exceptGA == <<hcVars, saVars, beamVars, cspVars, extraVars>>
exceptCSP == <<problemVars, hcVars, saVars, beamVars, gaVars, extraVars>>

(***************************************************************************)
(* Helpers                                                                 *)
(***************************************************************************)
FnIdle == fn_pc = "off" /\ fn_arg = 0 /\ fn_out = 0

DrvIdle == drv_records = << >> /\ drv_single = 0 /\ drv_batch = 0

ParIdle == par_params = << >> /\ par_cities = << >> /\ par_draws = << >> /\ par_recs = << >>

ObjIdle ==
    /\ obj_cfg = << >> /\ obj_pc = "off" /\ obj_gen = 0
    /\ obj_heap = << >> /\ obj_population = << >> /\ obj_emitted = {}

SHCIdle ==
    /\ shc_variant = "standard" /\ shc_maxSideways = 0 /\ shc_maxRestarts = 0
    /\ shc_tolerance = 0 /\ shc_pc = "off" /\ shc_current = 0 /\ shc_restarts = 0
    /\ shc_sidewaysMoves = 0 /\ shc_rec = [note |-> "none"] /\ shc_resumed = << >>
    /\ shc_streak = 0

FrmIdle ==
    /\ frm_pc = "off" /\ frm_heap = << >> /\ frm_current = << >>
    /\ frm_stack = << >> /\ frm_loop = << >>

BmIdle ==
    /\ bm_pc = "off" /\ bm_supportsCSP = FALSE /\ bm_isRunning = FALSE
    /\ bm_cancelFlag = FALSE /\ bm_seed = 0 /\ bm_config = 0
    /\ bm_completedRuns = 0 /\ bm_result = "pending" /\ bm_cancelledAt = << >>

MoreIdle == FrmIdle /\ BmIdle

\* nothing but an algorithm runs
ExtrasIdle == FnIdle /\ DrvIdle /\ ParIdle /\ ObjIdle /\ SHCIdle /\ MoreIdle

Range(s) == {s[i] : i \in 1..Len(s)}

MinOf(S) == CHOOSE m \in S : \A n \in S : m <= n

NoRec == [note |-> "none"]

\* Array.prototype.sort((a, b) => c(a) - c(b)): a stable ascending sort; the
\* element at index i lands after the cheaper ones and the equal ones before it
StableSortBy(s, c(_)) ==
    LET pos(i) == 1 + Cardinality({j \in 1..Len(s) :
                         c(s[j]) < c(s[i]) \/ (c(s[j]) = c(s[i]) /\ j < i)})
    IN [p \in 1..Len(s) |-> s[CHOOSE i \in 1..Len(s) : pos(i) = p]]

(***************************************************************************)
(* The Problem / State contract used by the local-search algorithms        *)
(***************************************************************************)
X == 0..MaxX
Costs == 0..MaxCost
Topologies == {"ring", "self", "dead"}
\* sidewaysTolerance in percent: 0.0 and 0.5
TolerancePcts == {0, 50}

\* State.getNeighbors(): "ring" is the mock's [x-1, x+1] on a closed range,
\* "line" the same on the integers, "self" is the plateau mock's single equal
\* neighbour, "dead" has a state with no neighbour at all
Neighbors(x) ==
    CASE topology = "ring" -> <<(x + MaxX) % (MaxX + 1), (x + 1) % (MaxX + 1)>>
      [] topology = "self" -> <<x>>
      [] topology = "line" -> <<x - 1, x + 1>>
      [] OTHER -> IF x = 0 THEN <<>> ELSE <<x - 1>>

Cost(x) == landscape[x]

IsSolutionNever(x) == FALSE

IsSolution(x) == hasGoal /\ Cost(x) = 0

ProblemInit ==
    /\ landscape \in [X -> Costs]
    /\ topology \in Topologies
    /\ hasGoal \in BOOLEAN

(***************************************************************************)
(* hillClimbing                                                            *)
(***************************************************************************)
\* the neighbours that reach the minimum cost (dataset, lines 29-42)
BestNeighbors(x) ==
    LET ns == Range(Neighbors(x))
        best == MinOf({Cost(n) : n \in ns})
    IN {n \in ns : Cost(n) = best}

IsSidewaysAnyWorse(nextCost, curCost, tol) ==
    nextCost = curCost \/ tol > 0

\* line 56: next.cost === current.cost ||
\*          (tolerance > 0 && next.cost <= current.cost * (1 + tolerance))
IsSideways(nextCost, curCost, tol) ==
    nextCost = curCost \/ (tol > 0 /\ nextCost * 100 <= curCost * (100 + tol))

HCRecord(state, note, restarts, evals) ==
    [state |-> state, note |-> note, restartCount |-> restarts, evaluations |-> evals]

HCIdle ==
    /\ hc_maxSideways = 0 /\ hc_maxRestarts = 0 /\ hc_tolerance = 0
    /\ hc_pc = "off" /\ hc_current = 0 /\ hc_restarts = 0
    /\ hc_sidewaysMoves = 0 /\ hc_evaluations = 0
    /\ hc_rec = NoRec /\ hc_prev = 0 /\ hc_seen = {}
    /\ hc_initialNull = FALSE /\ hc_draws = 0 /\ hc_streak = 0

HCInit ==
    /\ hc_maxSideways \in 0..MaxSidewaysB
    /\ hc_maxRestarts \in 0..MaxRestartsB
    /\ hc_tolerance \in TolerancePcts
    /\ hc_pc = "new"
    /\ hc_current \in X
    /\ hc_restarts = 0 /\ hc_sidewaysMoves = 0 /\ hc_evaluations = 0
    /\ hc_rec = NoRec
    /\ hc_prev = hc_current
    /\ hc_seen = {}
    /\ hc_initialNull \in BOOLEAN /\ hc_draws = 0 /\ hc_streak = 0

HCConst ==
    UNCHANGED <<problemVars, hc_maxSideways, hc_maxRestarts, hc_tolerance, hc_initialNull>>

\* the inner loop is entered (line 19) with the present current, sidewaysMoves
\* and restarts
HCEntersLoop ==
    hc_seen' = hc_seen \cup {<<hc_current, hc_sidewaysMoves, hc_restarts>>}

\* first advance: lines 11-17, the 'Initial State' record; with a null
\* initialState hc_current is the state problem.randomState returns at line 11
HCStart ==
    /\ hc_pc = "new"
    /\ hc_draws' = IF hc_initialNull THEN 1 ELSE 0
    /\ hc_sidewaysMoves' = 0
    /\ hc_rec' = HCRecord(hc_current, "Initial State", hc_restarts, hc_evaluations)
    /\ hc_pc' = "run"
    /\ UNCHANGED <<hc_current, hc_restarts, hc_evaluations, hc_prev>>
    /\ UNCHANGED hc_seen
    /\ hc_streak' = 0
    /\ HCConst
    /\ UNCHANGED exceptHC

\* lines 20-23
HCSolution ==
    /\ hc_pc = "run"
    /\ IsSolution(hc_current)
    /\ hc_rec' = HCRecord(hc_current, "Solution Found!", hc_restarts, hc_evaluations)
    /\ hc_pc' = "done"
    /\ UNCHANGED <<hc_current, hc_restarts, hc_sidewaysMoves, hc_evaluations, hc_prev>>
    /\ HCEntersLoop
    /\ UNCHANGED hc_draws
    /\ UNCHANGED hc_streak
    /\ HCConst
    /\ UNCHANGED exceptHC

\* lines 25-30 with an empty neighbour list: neighbors[0] is undefined and
\* bestNeighbor.cost throws
HCThrow ==
    /\ hc_pc = "run"
    /\ ~IsSolution(hc_current)
    /\ Neighbors(hc_current) = <<>>
    /\ hc_pc' = "error"
    /\ UNCHANGED <<hc_current, hc_restarts, hc_sidewaysMoves, hc_evaluations,
                   hc_rec, hc_prev>>
    /\ HCEntersLoop
    /\ UNCHANGED hc_draws
    /\ UNCHANGED hc_streak
    /\ HCConst
    /\ UNCHANGED exceptHC

HCCanMove ==
    /\ hc_pc = "run"
    /\ hc_evaluations < MaxEvals
    /\ ~IsSolution(hc_current)
    /\ Neighbors(hc_current) # <<>>

\* lines 50-53
HCImproved ==
    /\ HCCanMove
    /\ \E next \in BestNeighbors(hc_current) :
          /\ Cost(next) < Cost(hc_current)
          /\ hc_current' = next
          /\ hc_prev' = hc_current
          /\ hc_sidewaysMoves' = 0
          /\ hc_evaluations' = hc_evaluations + Len(Neighbors(hc_current))
          /\ hc_rec' = HCRecord(next, "Improved", hc_restarts, hc_evaluations')
    /\ UNCHANGED <<hc_pc, hc_restarts>>
    /\ HCEntersLoop
    /\ UNCHANGED hc_draws
    /\ hc_streak' = 0
    /\ HCConst
    /\ UNCHANGED exceptHC

HCSidewaysUnbounded ==
    /\ HCCanMove
    /\ \E next \in BestNeighbors(hc_current) :
          /\ ~(Cost(next) < Cost(hc_current))
          /\ IsSideways(Cost(next), Cost(hc_current), hc_tolerance)
          /\ hc_current' = next
          /\ hc_prev' = hc_current
          /\ hc_sidewaysMoves' = hc_sidewaysMoves + 1
          /\ hc_evaluations' = hc_evaluations + Len(Neighbors(hc_current))
          /\ hc_rec' = HCRecord(next,
                                IF Cost(next) = Cost(hc_current)
                                   THEN "Sideways" ELSE "Sideways (~)",
                                hc_restarts, hc_evaluations')
    /\ UNCHANGED <<hc_pc, hc_restarts>>
    /\ HCEntersLoop
    /\ UNCHANGED hc_draws
    /\ hc_streak' = hc_streak + 1
    /\ HCConst
    /\ UNCHANGED exceptHC

\* lines 56-63
HCSideways ==
    /\ HCCanMove
    /\ \E next \in BestNeighbors(hc_current) :
          /\ ~(Cost(next) < Cost(hc_current))
          /\ IsSideways(Cost(next), Cost(hc_current), hc_tolerance)
          /\ hc_sidewaysMoves < hc_maxSideways
          /\ hc_current' = next
          /\ hc_prev' = hc_current
          /\ hc_sidewaysMoves' = hc_sidewaysMoves + 1
          /\ hc_evaluations' = hc_evaluations + Len(Neighbors(hc_current))
          /\ hc_rec' = HCRecord(next,
                                IF Cost(next) = Cost(hc_current)
                                   THEN "Sideways" ELSE "Sideways (~)",
                                hc_restarts, hc_evaluations')
    /\ UNCHANGED <<hc_pc, hc_restarts>>
    /\ HCEntersLoop
    /\ UNCHANGED hc_draws
    /\ hc_streak' = hc_streak + 1
    /\ HCConst
    /\ UNCHANGED exceptHC

\* the chosen best neighbour is neither better nor an allowed sideways move
HCIsStuck(next) ==
    /\ ~(Cost(next) < Cost(hc_current))
    /\ \/ ~IsSideways(Cost(next), Cost(hc_current), hc_tolerance)
       \/ ~(hc_sidewaysMoves < hc_maxSideways)

HCStuckAlwaysRestarting ==
    /\ HCCanMove
    /\ \E next \in BestNeighbors(hc_current) : HCIsStuck(next)
    /\ hc_evaluations' = hc_evaluations + Len(Neighbors(hc_current))
    /\ hc_rec' = HCRecord(hc_current, "Stuck (Local Maxima) - Restarting...",
                          hc_restarts, hc_evaluations')
    /\ hc_pc' = "restarting"
    /\ UNCHANGED <<hc_current, hc_restarts, hc_sidewaysMoves, hc_prev>>
    /\ HCEntersLoop
    /\ UNCHANGED hc_draws
    /\ UNCHANGED hc_streak
    /\ HCConst
    /\ UNCHANGED exceptHC

\* lines 65/68 then 74-75: stuck with restart budget left
HCStuckRestarting ==
    /\ HCCanMove
    /\ \E next \in BestNeighbors(hc_current) : HCIsStuck(next)
    /\ hc_restarts < hc_maxRestarts
    /\ hc_evaluations' = hc_evaluations + Len(Neighbors(hc_current))
    /\ hc_rec' = HCRecord(hc_current, "Stuck (Local Maxima) - Restarting...",
                          hc_restarts, hc_evaluations')
    /\ hc_pc' = "restarting"
    /\ UNCHANGED <<hc_current, hc_restarts, hc_sidewaysMoves, hc_prev>>
    /\ HCEntersLoop
    /\ UNCHANGED hc_draws
    /\ UNCHANGED hc_streak
    /\ HCConst
    /\ UNCHANGED exceptHC

\* lines 65/68 then 79-81: stuck with no restart left
HCStuckFinal ==
    /\ HCCanMove
    /\ \E next \in BestNeighbors(hc_current) : HCIsStuck(next)
    /\ ~(hc_restarts < hc_maxRestarts)
    /\ hc_evaluations' = hc_evaluations + Len(Neighbors(hc_current))
    /\ hc_rec' = HCRecord(hc_current, "Stuck (Local Maxima)",
                          hc_restarts, hc_evaluations')
    /\ hc_pc' = "done"
    /\ UNCHANGED <<hc_current, hc_restarts, hc_sidewaysMoves, hc_prev>>
    /\ HCEntersLoop
    /\ UNCHANGED hc_draws
    /\ UNCHANGED hc_streak
    /\ HCConst
    /\ UNCHANGED exceptHC

\* lines 76-78 then 16-17: the advance after a 'Restarting...' record
HCRestart ==
    /\ hc_pc = "restarting"
    /\ hc_evaluations < MaxEvals
    /\ \E fresh \in X :
          /\ hc_current' = fresh
          /\ hc_prev' = hc_current
          /\ hc_restarts' = hc_restarts + 1
          /\ hc_draws' = hc_draws + 1
          /\ hc_evaluations' = hc_evaluations + 1
          /\ hc_sidewaysMoves' = 0
          /\ hc_rec' = HCRecord(fresh, "Restart", hc_restarts', hc_evaluations')
    /\ hc_pc' = "run"
    /\ UNCHANGED hc_seen
    /\ hc_streak' = 0
    /\ HCConst
    /\ UNCHANGED exceptHC

\* lines 22 and 81: the advance after a terminal record finds `return`; the
\* generator completes and delivers no value
HCReturn ==
    /\ hc_pc = "done"
    /\ hc_pc' = "returned"
    /\ UNCHANGED <<hc_current, hc_restarts, hc_sidewaysMoves, hc_evaluations,
                   hc_rec, hc_prev, hc_seen, hc_draws>>
    /\ UNCHANGED hc_streak
    /\ HCConst
    /\ UNCHANGED exceptHC

(***************************************************************************)
(* simulatedAnnealing                                                      *)
(***************************************************************************)
\* temperatures and rates are exact fractions <<numerator, denominator>>
FracLess(a, b) == a[1] * b[2] < b[1] * a[2]
FracEq(a, b) == a[1] * b[2] = b[1] * a[2]
FracMul(a, b) == <<a[1] * b[1], a[2] * b[2]>>

\* line 258: the frozen threshold 0.0001
FrozenThreshold == <<1, 10000>>
\* line 289: the threshold 0.01 tested right after cooling
ReheatThreshold == <<1, 100>>

\* (initialTemp, coolingRate) pairs; coolingRate in (0,1)
SAConfigs ==
    { <<(<<100, 1>>), (<<1, 2>>)>>, <<(<<100, 1>>), (<<1, 10>>)>>,
      <<(<<1, 1>>), (<<1, 2>>)>>, <<(<<1, 50>>), (<<3, 4>>)>>,
      <<(<<1, 50>>), (<<1, 2>>)>>, <<(<<1, 20000>>), (<<1, 2>>)>> }

CoolDownForgotten(temp, rate) == temp

\* line 286: temp *= coolingRate
CoolDown(temp, rate) == FracMul(temp, rate)

SARecord(state, note, temp, evals) ==
    [state |-> state, note |-> note, temp |-> temp, evaluations |-> evals]

SAIdle ==
    /\ sa_coolingRate = <<1, 2>> /\ sa_temp = <<1, 1>>
    /\ sa_pc = "off" /\ sa_current = 0 /\ sa_evaluations = 0
    /\ sa_rec = NoRec /\ sa_samples = 0 /\ sa_prevTemp = <<1, 1>> /\ sa_next = 0

SAInit ==
    /\ \E cfg \in SAConfigs : sa_temp = cfg[1] /\ sa_coolingRate = cfg[2]
    /\ sa_pc = "new"
    /\ sa_current \in X
    /\ sa_evaluations = 0
    /\ sa_rec = NoRec
    /\ sa_samples = 0
    /\ sa_prevTemp = sa_temp
    /\ sa_next = sa_current

SAConst == UNCHANGED <<problemVars, exceptSA, sa_coolingRate>>

\* first advance: lines 246-250
SAStart ==
    /\ sa_pc = "new"
    /\ sa_rec' = SARecord(sa_current, "T", sa_temp, sa_evaluations)
    /\ sa_pc' = "init"
    /\ UNCHANGED <<sa_temp, sa_current, sa_evaluations, sa_samples, sa_prevTemp>>
    /\ UNCHANGED sa_next
    /\ SAConst

\* temp when the loop body is entered again: cooled (line 286) if the
\* generator was suspended at a sampling record, untouched after the first record
SAResumedTemp ==
    IF sa_pc = "sampled" THEN CoolDown(sa_temp, sa_coolingRate) ELSE sa_temp

SARunning == sa_pc \in {"init", "sampled"}

\* line 289 after cooling, or line 258 at the loop top
SAIsFrozen ==
    \/ sa_pc = "sampled" /\ FracLess(SAResumedTemp, ReheatThreshold)
    \/ FracLess(SAResumedTemp, FrozenThreshold)

\* lines 253-256 and 290-293
SASolution ==
    /\ SARunning
    /\ IsSolution(sa_current)
    /\ sa_temp' = SAResumedTemp
    /\ sa_rec' = SARecord(sa_current, "Solution Found!", sa_temp', sa_evaluations)
    /\ sa_pc' = "done"
    /\ UNCHANGED <<sa_current, sa_evaluations, sa_samples, sa_prevTemp>>
    /\ UNCHANGED sa_next
    /\ SAConst

SAFrozenGoesOn ==
    /\ SARunning
    /\ ~IsSolution(sa_current)
    /\ SAIsFrozen
    /\ sa_rec' = SARecord(sa_current, "Frozen", sa_temp, sa_evaluations)
    /\ UNCHANGED <<sa_temp, sa_pc, sa_current, sa_evaluations, sa_samples, sa_prevTemp>>
    /\ UNCHANGED sa_next
    /\ SAConst

\* lines 258-261 and 297-298
SAFrozen ==
    /\ SARunning
    /\ ~IsSolution(sa_current)
    /\ SAIsFrozen
    /\ sa_temp' = SAResumedTemp
    /\ sa_rec' = SARecord(sa_current, "Frozen", sa_temp', sa_evaluations)
    /\ sa_pc' = "done"
    /\ UNCHANGED <<sa_current, sa_evaluations, sa_samples, sa_prevTemp>>
    /\ UNCHANGED sa_next
    /\ SAConst

SACanSample ==
    /\ SARunning
    /\ ~IsSolution(sa_current)
    /\ ~SAIsFrozen

\* line 264 on a state without neighbours: next is undefined, next.cost throws
SAThrow ==
    /\ SACanSample
    /\ Neighbors(sa_current) = <<>>
    /\ sa_temp' = SAResumedTemp
    /\ sa_pc' = "error"
    /\ UNCHANGED <<sa_current, sa_evaluations, sa_rec, sa_samples, sa_prevTemp>>
    /\ UNCHANGED sa_next
    /\ SAConst

\* what every sampling step does besides the accept / reject decision
SASampled ==
    /\ sa_temp' = SAResumedTemp
    /\ sa_evaluations' = sa_evaluations + 1
    /\ sa_samples' = sa_samples + 1
    /\ sa_prevTemp' = sa_temp
    /\ sa_pc' = "sampled"
    /\ SAConst

\* lines 269-271: deltaE > 0
SAImproved ==
    /\ SACanSample
    /\ \E next \in Range(Neighbors(sa_current)) :
          /\ Cost(sa_current) - Cost(next) > 0
          /\ sa_next' = next
          /\ sa_current' = next
          /\ sa_rec' = SARecord(next, "T (Improved)", SAResumedTemp, sa_evaluations + 1)
    /\ SASampled

\* lines 275-278: deltaE <= 0 and Math.random() < exp(deltaE / temp)
SAAcceptedWorse ==
    /\ SACanSample
    /\ \E next \in Range(Neighbors(sa_current)) :
          /\ Cost(sa_current) - Cost(next) <= 0
          /\ sa_next' = next
          /\ sa_current' = next
          /\ sa_rec' = SARecord(next, "T (Accepted worse)", SAResumedTemp,
                                sa_evaluations + 1)
    /\ SASampled

\* lines 279-281: the draw is not below exp(deltaE / temp); exp(0) = 1 is
\* never reached by Math.random(), so deltaE < 0 here
SAStay ==
    /\ SACanSample
    /\ \E next \in Range(Neighbors(sa_current)) :
          /\ Cost(sa_current) - Cost(next) < 0
          /\ sa_next' = next
    /\ sa_rec' = SARecord(sa_current, "T", SAResumedTemp, sa_evaluations + 1)
    /\ UNCHANGED sa_current
    /\ SASampled

\* lines 255, 260, 292 and 298: the advance after a terminal record finds
\* `return`; the generator completes and delivers no value
SAReturn ==
    /\ sa_pc = "done"
    /\ sa_pc' = "returned"
    /\ UNCHANGED <<sa_temp, sa_current, sa_evaluations, sa_rec, sa_samples, sa_prevTemp>>
    /\ UNCHANGED sa_next
    /\ SAConst

(***************************************************************************)
(* localBeamSearch                                                         *)
(***************************************************************************)
\* population.sort((a, b) => a.cost - b.cost)
SortByCost(s) == StableSortBy(s, Cost)

RECURSIVE AllSuccessors(_)
\* lines 344-349: the neighbours of every member, in population order
AllSuccessors(pop) ==
    IF pop = <<>> THEN <<>>
    ELSE Neighbors(pop[1]) \o AllSuccessors(SubSeq(pop, 2, Len(pop)))

\* lines 389-390: allSuccessors.sort(...).slice(0, beamWidth)
SelectBest(pool, k) ==
    LET sorted == SortByCost(pool)
    IN SubSeq(sorted, 1, IF Len(sorted) < k THEN Len(sorted) ELSE k)

\* lines 367-386: beamWidth draws with replacement; every weight
\* exp(-beta (cost - minCost)) is positive, so every candidate can be drawn
SelectStochastic(pool, k) == [1..k -> Range(pool)]

NextPopulations(pool, k, variant) ==
    IF variant = "stochastic"
    THEN {SortByCost(sel) : sel \in SelectStochastic(pool, k)}
    ELSE {SelectBest(pool, k)}

BeamRecord(state, pop, note, restarts, evals) ==
    [state |-> state, population |-> pop, note |-> note,
     restartCount |-> restarts, evaluations |-> evals]

BeamIdle ==
    /\ beam_width = 0 /\ beam_variant = "deterministic" /\ beam_maxGenerations = 0
    /\ beam_maxSideways = 0 /\ beam_maxRestarts = 0
    /\ beam_pc = "off" /\ beam_population = <<>> /\ beam_best = 0 /\ beam_bestSoFar = 0
    /\ beam_sidewaysMoves = 0 /\ beam_gen = 0 /\ beam_restarts = 0
    /\ beam_evaluations = 0 /\ beam_rec = NoRec

BeamInit ==
    /\ beam_width \in 1..MaxBeamWidth
    /\ beam_variant \in {"deterministic", "stochastic"}
    /\ beam_maxGenerations \in 0..MaxGenB
    /\ beam_maxSideways \in 0..MaxSidewaysB
    /\ beam_maxRestarts \in 0..MaxRestartsB
    /\ beam_pc = "new" /\ beam_population = <<>> /\ beam_best = 0 /\ beam_bestSoFar = 0
    /\ beam_sidewaysMoves = 0 /\ beam_gen = 0 /\ beam_restarts = 0
    /\ beam_evaluations = 0 /\ beam_rec = NoRec

BeamConst == UNCHANGED <<problemVars, exceptBeam, beam_width, beam_variant,
                         beam_maxGenerations, beam_maxSideways, beam_maxRestarts>>

\* lines 308-332: (re)initialise the beam; the first advance, and the advance
\* after a 'Restarting...' record (restarts++ at line 444)
BeamStart ==
    /\ beam_pc \in {"new", "restarting"}
    /\ \E drawn \in [1..beam_width -> X] :
          LET pop == SortByCost(drawn)
              restarts == IF beam_pc = "restarting"
                             THEN beam_restarts + 1 ELSE beam_restarts
              evals == beam_evaluations + beam_width
          IN /\ beam_population' = pop
             /\ beam_restarts' = restarts
             /\ beam_evaluations' = evals
             /\ beam_best' = pop[1]
             /\ beam_bestSoFar' = pop[1]
             /\ beam_rec' = BeamRecord(pop[1], pop,
                                       IF restarts > 0 THEN "Beam Init(Restart)"
                                                       ELSE "Beam Init",
                                       restarts, evals)
    /\ beam_sidewaysMoves' = 0
    /\ beam_gen' = 0
    /\ beam_pc' = "init"
    /\ BeamConst

BeamRunning == beam_pc \in {"init", "gen"}

\* lines 338-340 (loop top, reached from the init record when maxGenerations
\* >= 1) and 430-433 (after a generation record)
BeamSolution ==
    /\ BeamRunning
    /\ beam_pc = "init" => 1 <= beam_maxGenerations
    /\ IsSolution(beam_best)
    /\ beam_rec' = BeamRecord(beam_best, beam_population, "Solution Found!",
                              beam_restarts, beam_evaluations)
    /\ beam_pc' = "done"
    /\ UNCHANGED <<beam_population, beam_best, beam_bestSoFar, beam_sidewaysMoves,
                   beam_gen, beam_restarts, beam_evaluations>>
    /\ BeamConst

SidewaysLimitOffByOne(moves, limit) == moves > limit

\* line 435: sidewaysMoves >= maxSideways
SidewaysLimitReached(moves, limit) == moves >= limit

\* the advance enters the body of generation beam_gen + 1
BeamEntersGeneration ==
    /\ BeamRunning
    /\ beam_pc = "gen" =>
          /\ ~IsSolution(beam_best)
          /\ ~SidewaysLimitReached(beam_sidewaysMoves, beam_maxSideways)
    /\ beam_gen + 1 <= beam_maxGenerations
    /\ ~IsSolution(beam_best)

\* lines 343-428: one generation
BeamGeneration ==
    /\ BeamEntersGeneration
    /\ LET pool == AllSuccessors(beam_population) IN
          /\ pool # <<>>
          /\ \E nextPop \in NextPopulations(pool, beam_width, beam_variant) :
                LET newBest == nextPop[1]
                    improved == Cost(newBest) < Cost(beam_bestSoFar)
                IN /\ beam_population' = nextPop
                   /\ beam_best' = newBest
                   /\ beam_bestSoFar' = IF improved THEN newBest ELSE beam_bestSoFar
                   /\ beam_sidewaysMoves' = IF improved THEN 0 ELSE beam_sidewaysMoves + 1
                   /\ beam_evaluations' = beam_evaluations + Len(pool)
                   /\ beam_rec' = BeamRecord(newBest, nextPop,
                                             IF improved THEN "Improved" ELSE "Sideways",
                                             beam_restarts, beam_evaluations + Len(pool))
    /\ beam_gen' = beam_gen + 1
    /\ beam_pc' = "gen"
    /\ UNCHANGED beam_restarts
    /\ BeamConst

\* the generation loop is left without a solution: sideways limit (435-438),
\* maxGenerations (337), or an empty candidate pool (351-353)
BeamLeavesLoop ==
    /\ BeamRunning
    /\ \/ /\ beam_pc = "gen"
          /\ ~IsSolution(beam_best)
          /\ SidewaysLimitReached(beam_sidewaysMoves, beam_maxSideways)
       \/ /\ beam_pc = "gen" => ~IsSolution(beam_best)
          /\ ~(beam_gen + 1 <= beam_maxGenerations)
       \/ /\ BeamEntersGeneration
          /\ AllSuccessors(beam_population) = <<>>

\* line 441 holds (evaluations > 0 since beamWidth >= 1); lines 442-443
BeamStuckRestarting ==
    /\ BeamLeavesLoop
    /\ beam_restarts < beam_maxRestarts
    /\ beam_rec' = BeamRecord(beam_best, beam_population, "Stuck/Limit - Restarting...",
                              beam_restarts, beam_evaluations)
    /\ beam_pc' = "restarting"
    /\ UNCHANGED <<beam_population, beam_best, beam_bestSoFar, beam_sidewaysMoves,
                   beam_gen, beam_restarts, beam_evaluations>>
    /\ BeamConst

\* lines 446-448
BeamStuckFinal ==
    /\ BeamLeavesLoop
    /\ ~(beam_restarts < beam_maxRestarts)
    /\ beam_rec' = BeamRecord(beam_best, beam_population, "Stuck (Max Restarts Reached)",
                              beam_restarts, beam_evaluations)
    /\ beam_pc' = "done"
    /\ UNCHANGED <<beam_population, beam_best, beam_bestSoFar, beam_sidewaysMoves,
                   beam_gen, beam_restarts, beam_evaluations>>
    /\ BeamConst

(***************************************************************************)
(* geneticAlgorithm                                                        *)
(***************************************************************************)
\* mutationRate in percent: never, sometimes, always (Math.random() < rate)
MutationPcts == {0, 50, 100}
\* cullRate in percent, in [0, 1)
CullPcts == {0, 50, 70}

\* problem.crossover(parents): the mock's floor of the parents' average
Crossover(p1, p2) == (p1 + p2) \div 2

\* problem.mutate(child, rate): in place, one step to either side when
\* Math.random() < rate
Mutations(x, rate) ==
    (IF rate < 100 THEN {x} ELSE {})
    \cup (IF rate > 0 THEN {(x + MaxX) % (MaxX + 1), (x + 1) % (MaxX + 1)} ELSE {})

\* line 500: Math.floor(population.length * (1 - cullRate))
KeepCount(len, cull) == (len * (100 - cull)) \div 100

\* lines 498-506: survivors = population, or its first keepCount members
Survivors(pop, cull) ==
    IF cull > 0 THEN SubSeq(pop, 1, KeepCount(Len(pop), cull)) ELSE pop

\* tournamentSelect (565-574): three draws with replacement, the cheapest of
\* them; any survivor can be drawn three times, so any survivor can win
TournamentSelect(survivors) == Range(survivors)

\* lines 521-536: one child
Children(survivors, rate) ==
    UNION {Mutations(Crossover(p1, p2), rate) :
              p1 \in TournamentSelect(survivors), p2 \in TournamentSelect(survivors)}

EliteDropped(survivors, elitism) == <<>>

\* lines 511-517: the clone of the best survivor opens the new population
Elite(survivors, elitism) == IF elitism THEN <<survivors[1]>> ELSE <<>>

FillToSurvivors(size, survivors) == Len(survivors)

\* line 520: while (newPopulation.length < startingPopulationSize)
FillTarget(size, survivors) == size

\* lines 508-541: the sorted new populations one generation can produce
NextGenerations(pop, size, cull, rate, elitism) ==
    LET survivors == Survivors(pop, cull)
        elite == Elite(survivors, elitism)
        target == FillTarget(size, survivors)
        missing == IF target > Len(elite) THEN target - Len(elite) ELSE 0
    IN {SortByCost(elite \o kids) : kids \in [1..missing -> Children(survivors, rate)]}

GARecord(state, pop, note, gen, evals) ==
    [state |-> state, population |-> pop, note |-> note, gen |-> gen,
     evaluations |-> evals]

GAIdle ==
    /\ ga_size = 0 /\ ga_mutationRate = 0 /\ ga_cullRate = 0 /\ ga_elitism = FALSE
    /\ ga_maxGenerations = 0
    /\ ga_pc = "off" /\ ga_population = <<>> /\ ga_best = 0 /\ ga_gen = 0
    /\ ga_evaluations = 0 /\ ga_rec = NoRec /\ ga_prevBest = 0

GAInit ==
    /\ ga_size \in 1..MaxPopB
    /\ ga_mutationRate \in MutationPcts
    /\ ga_cullRate \in CullPcts
    /\ ga_elitism \in BOOLEAN
    /\ ga_maxGenerations \in 0..MaxGenB
    /\ ga_pc = "new" /\ ga_population = <<>> /\ ga_best = 0 /\ ga_gen = 0
    /\ ga_evaluations = 0 /\ ga_rec = NoRec /\ ga_prevBest = 0

GAConst == UNCHANGED <<problemVars, exceptGA, ga_size, ga_mutationRate, ga_cullRate,
                       ga_elitism, ga_maxGenerations>>

\* lines 467-487: the random population, sorted, and the 'Gen 0' record
GAStart ==
    /\ ga_pc = "new"
    /\ \E drawn \in [1..ga_size -> X] :
          LET pop == SortByCost(drawn) IN
             /\ ga_population' = pop
             /\ ga_best' = pop[1]
             /\ ga_rec' = GARecord(pop[1], pop, "Gen Best", 0, ga_size)
    /\ ga_evaluations' = ga_size
    /\ ga_gen' = 0
    /\ ga_pc' = "gen"
    /\ UNCHANGED ga_prevBest
    /\ GAConst

\* the loop head admits generation ga_gen + 1 (line 489)
GAEntersGeneration ==
    /\ ga_pc = "gen"
    /\ ga_gen + 1 <= ga_maxGenerations

\* lines 490-493
GASolution ==
    /\ GAEntersGeneration
    /\ IsSolution(ga_best)
    /\ ga_rec' = GARecord(ga_best, ga_population, "Solution in Gen", ga_gen,
                          ga_evaluations)
    /\ ga_pc' = "done"
    /\ UNCHANGED <<ga_population, ga_best, ga_gen, ga_evaluations, ga_prevBest>>
    /\ GAConst

\* culling left no survivor: survivors[0].clone() (line 512) throws with
\* elitism, problem.crossover reads a parent that is undefined without it
GAThrow ==
    /\ GAEntersGeneration
    /\ ~IsSolution(ga_best)
    /\ Survivors(ga_population, ga_cullRate) = <<>>
    /\ ga_pc' = "error"
    /\ UNCHANGED <<ga_population, ga_best, ga_gen, ga_evaluations, ga_rec, ga_prevBest>>
    /\ GAConst

\* lines 495-551: one generation and its 'Gen n' record
GAGeneration ==
    /\ GAEntersGeneration
    /\ ~IsSolution(ga_best)
    /\ Survivors(ga_population, ga_cullRate) # <<>>
    /\ \E nextPop \in NextGenerations(ga_population, ga_size, ga_cullRate,
                                      ga_mutationRate, ga_elitism) :
          /\ ga_population' = nextPop
          /\ ga_best' = nextPop[1]
          /\ ga_evaluations' = ga_evaluations + Len(nextPop)
                                  - Len(Elite(Survivors(ga_population, ga_cullRate),
                                              ga_elitism))
          /\ ga_rec' = GARecord(nextPop[1], nextPop, "Gen Best", ga_gen + 1,
                                ga_evaluations')
    /\ ga_prevBest' = ga_best
    /\ ga_gen' = ga_gen + 1
    /\ ga_pc' = "gen"
    /\ GAConst

\* the loop ends after maxGenerations generations; the generator returns
\* without a further record
GAReturn ==
    /\ ga_pc = "gen"
    /\ ~(ga_gen + 1 <= ga_maxGenerations)
    /\ ga_pc' = "done"
    /\ UNCHANGED <<ga_population, ga_best, ga_gen, ga_evaluations, ga_rec, ga_prevBest>>
    /\ GAConst

(***************************************************************************)
(* NQueensState / NQueensProblem (problems/n-queens.js, second definition) *)
(* A state is [size, queens, domains]: queens[row] is a column or Null,    *)
(* domains[row] the array of columns still admitted, NoDomains when the    *)
(* state carries none.                                                     *)
(***************************************************************************)
\* null: no queen on the row
Null == -1

\* domains = null
NoDomains == << >>

Abs(x) == IF x < 0 THEN -x ELSE x

Rows(n) == 0..(n - 1)

\* the array [0, 1, ..., n - 1]
RowsSeq(n) == [i \in 1..n |-> i - 1]

\* NQueensState.emptyState
EmptyState(n) == [size |-> n, queens |-> [r \in Rows(n) |-> Null], domains |-> NoDomains]

\* the rows that carry a queen
AssignedRows(state) == {r \in Rows(state.size) : state.queens[r] # Null}

\* get isPartial
IsPartial(state) == Cardinality(AssignedRows(state)) < state.size

AttacksOnColumnOnly(r1, c1, r2, c2) == c1 = c2

\* same column or same diagonal
Attacks(r1, c1, r2, c2) == c1 = c2 \/ Abs(r1 - r2) = Abs(c1 - c2)

\* get cost: attacking pairs, plus 1000 for every row without a queen
NQCost(state) ==
    Cardinality({p \in AssignedRows(state) \X AssignedRows(state) :
                    /\ p[1] < p[2]
                    /\ Attacks(p[1], state.queens[p[1]], p[2], state.queens[p[2]])})
    + (IF IsPartial(state)
          THEN (state.size - Cardinality(AssignedRows(state))) * 1000 ELSE 0)

\* NQueensProblem.isSolution
NQIsSolution(state) == ~IsPartial(state) /\ NQCost(state) = 0

\* getAttackingQueens: the rows of queens under attack
GetAttackingQueens(state) ==
    {r \in AssignedRows(state) :
        \E q \in AssignedRows(state) :
            q # r /\ Attacks(r, state.queens[r], q, state.queens[q])}

\* initializeDomains: every column for every row
InitializeDomains(state) == [r \in Rows(state.size) |-> RowsSeq(state.size)]

\* selectUnassignedVariable: the first row without a queen, or null
SelectUnassignedVariable(state) ==
    IF AssignedRows(state) = Rows(state.size) THEN Null
    ELSE MinOf(Rows(state.size) \ AssignedRows(state))

\* getUnassignedVariables: the rows without a queen, ascending
GetUnassignedVariables(state) ==
    SelectSeq(RowsSeq(state.size), LAMBDA r : state.queens[r] = Null)

\* NQueensProblem.getDomainSize
NQGetDomainSize(state, variable) ==
    IF state.domains # NoDomains THEN Len(state.domains[variable]) ELSE state.size

\* applyMove
ApplyMove(state, variable, value, newDomains) ==
    [size |-> state.size,
     queens |-> [state.queens EXCEPT ![variable] = value],
     domains |-> newDomains]

\* getNQueensSuccessors (constructive-algorithms.js 8-45): one state per
\* column of the first row without a queen
GetNQueensSuccessors(state) ==
    LET nextRow == SelectUnassignedVariable(state)
        cols == IF state.domains # NoDomains THEN state.domains[nextRow]
                ELSE RowsSeq(state.size)
    IN IF nextRow = Null THEN << >>
       ELSE [i \in 1..Len(cols) |->
               ApplyMove(state, nextRow, cols[i],
                         IF state.domains # NoDomains
                            THEN [state.domains EXCEPT ![nextRow] = <<cols[i]>>]
                            ELSE NoDomains)]

UnattackedReordered(domain, r, row, col) ==
    LET kept == SelectSeq(domain, LAMBDA c : c # col /\ Abs(c - col) # Abs(r - row))
    IN [i \in 1..Len(kept) |-> kept[Len(kept) + 1 - i]]

UnattackedInverted(domain, r, row, col) ==
    SelectSeq(domain, LAMBDA c : c = col \/ Abs(c - col) = Abs(r - row))

\* the filter of propagate and of _runAC3: the columns of row r that a queen
\* on (row, col) does not attack
Unattacked(domain, r, row, col) ==
    SelectSeq(domain, LAMBDA c : c # col /\ Abs(c - col) # Abs(r - row))

\* nextDomains[row] = [col]
AssignedDomain(domain, value) == <<value>>

\* propagate (666-691): prunes every row without a queen, goes on after a
\* wipeout and reports it
Propagate(state, variable, value) ==
    LET pruned(r) == r # variable /\ state.queens[r] = Null
        nextDomains ==
            [r \in Rows(state.size) |->
                IF r = variable THEN AssignedDomain(state.domains[r], value)
                ELSE IF pruned(r)
                     THEN Unattacked(state.domains[r], r, variable, value)
                     ELSE state.domains[r]]
    IN [domains |-> nextDomains,
        success |-> \A r \in Rows(state.size) : pruned(r) => nextDomains[r] # << >>]

\* the arcs (k, target) for every k other than target and excluded, ascending
Arcs(n, target, excluded) ==
    LET ks == SelectSeq(RowsSeq(n), LAMBDA k : k # target /\ k # excluded)
    IN [i \in 1..Len(ks) |-> <<ks[i], target>>]

ReviseNothing(domains, xi, xj) == domains[xi]

\* _revise (746-763): the values of xi that have a support in xj
Revise(domains, xi, xj) ==
    SelectSeq(domains[xi],
              LAMBDA x : \E y \in Range(domains[xj]) :
                            x # y /\ Abs(xi - xj) # Abs(x - y))

RECURSIVE InitialPrune(_, _, _, _, _)
\* _runAC3 step 1 (711-731) from row r on: returns at the first wiped row
InitialPrune(domains, n, justAssignedRow, r, queue) ==
    IF r >= n THEN [domains |-> domains, queue |-> queue, possible |-> TRUE]
    ELSE IF r = justAssignedRow
    THEN InitialPrune(domains, n, justAssignedRow, r + 1, queue)
    ELSE LET filtered == Unattacked(domains[r], r, justAssignedRow,
                                    domains[justAssignedRow][1])
             next == [domains EXCEPT ![r] = filtered]
         IN IF filtered = << >>
            THEN [domains |-> next, queue |-> queue, possible |-> FALSE]
            ELSE InitialPrune(next, n, justAssignedRow, r + 1,
                              IF Len(filtered) < Len(domains[r])
                                 THEN queue \o Arcs(n, r, justAssignedRow)
                                 ELSE queue)

RECURSIVE ProcessQueue(_, _, _)
\* _runAC3 step 2 (733-742)
ProcessQueue(domains, n, queue) ==
    IF queue = << >> THEN [domains |-> domains, success |-> TRUE]
    ELSE LET xi == Head(queue)[1]
             xj == Head(queue)[2]
             revised == Revise(domains, xi, xj)
             next == [domains EXCEPT ![xi] = revised]
         IN IF Len(revised) < Len(domains[xi])
            THEN IF revised = << >>
                 THEN [domains |-> next, success |-> FALSE]
                 ELSE ProcessQueue(next, n, Tail(queue) \o Arcs(n, xi, xj))
            ELSE ProcessQueue(domains, n, Tail(queue))

\* _runAC3 (707-744)
RunAC3(domains, n, justAssignedRow) ==
    LET first == InitialPrune(domains, n, justAssignedRow, 0, << >>)
    IN IF first.possible THEN ProcessQueue(first.domains, n, first.queue)
       ELSE [domains |-> first.domains, success |-> FALSE]

\* propagateAC3 (694-704)
PropagateAC3(state, variable, value) ==
    RunAC3([state.domains EXCEPT ![variable] = <<value>>], state.size, variable)

(***************************************************************************)
(* SudokuState / SudokuProblem / SudokuGenerator (problems/sudoku.js)      *)
(* A state is [size, grid, fixed, domains]: grid[r][c] is a digit 1..size  *)
(* or 0 for an empty cell, domains[r][c] the array of digits still         *)
(* admitted. The variable {r, c} is written as the integer r * size + c.   *)
(* The sizes modelled have boxes that tile the grid.                       *)
(***************************************************************************)
\* the size for which the SudokuState constructor sets boxes 4 wide and 3 high
WideBoxSize == 12

\* Math.floor(Math.sqrt(n))
FloorSqrt(n) == CHOOSE k \in 0..n : k * k <= n /\ (k + 1) * (k + 1) > n

\* Math.ceil(a / b)
CeilDiv(a, b) == (a + b - 1) \div b

\* SudokuState constructor: boxWidth
BoxWidth(size) ==
    CASE size \in {6, 9} -> 3
      [] size = WideBoxSize -> 4
      [] size = 15 -> 5
      [] OTHER -> FloorSqrt(size)

\* SudokuState constructor: boxHeight
BoxHeight(size) ==
    CASE size = 6 -> 2
      [] size \in {9, WideBoxSize, 15} -> 3
      [] OTHER -> CeilDiv(size, FloorSqrt(size))

\* solve: bw
SolveBoxWidth(size) ==
    CASE size \in {6, 9} -> 3
      [] size = 15 -> 5
      [] OTHER -> FloorSqrt(size)

\* solve: bh
SolveBoxHeight(size) ==
    CASE size = 6 -> 2
      [] size \in {9, 15} -> 3
      [] OTHER -> CeilDiv(size, FloorSqrt(size))

Cells(size) == 0..(size * size - 1)

\* the array of all cells in row-major order
CellsSeq(size) == [i \in 1..(size * size) |-> i - 1]

CellRow(size, variable) == variable \div size

CellCol(size, variable) == variable % size

\* isValid (728-746): val is in no cell of the row, of the column and, from
\* size 4 on, of the box
SolveIsValid(grid, r, c, val, size, bw, bh) ==
    /\ \A i \in Rows(size) : grid[r][i] # val /\ grid[i][c] # val
    /\ size >= 4 =>
          LET br == (r \div bh) * bh
              bc == (c \div bw) * bw
          IN \A i \in Rows(bh), j \in Rows(bw) : grid[br + i][bc + j] # val

\* the grid when solve reaches cell k: the cells before it are filled
FilledBefore(grid, size, k) ==
    [r \in Rows(size) |-> [c \in Rows(size) |->
        IF r * size + c < k THEN grid[r][c] ELSE 0]]

\* solve (699-726) fills the cells in row-major order and tries the digits
\* of a cell in a shuffled order: it can end on exactly the complete grids
\* on which every digit was valid when it was put
SolveCanEndOn(grid, size) ==
    \A k \in Cells(size) :
        SolveIsValid(FilledBefore(grid, size, k), CellRow(size, k), CellCol(size, k),
                     grid[CellRow(size, k)][CellCol(size, k)], size,
                     SolveBoxWidth(size), SolveBoxHeight(size))

\* a complete grid built from shifted rows for boxes bw wide and bh high
PatternGrid(size, bw, bh, shift) ==
    [r \in Rows(size) |-> [c \in Rows(size) |->
        (((r % bh) * bw + (r \div bh) + c + shift) % size) + 1]]

\* the complete grids considered: patterns for the boxes of the state and
\* for the boxes of solve, with every shift up to MaxShift
CandidateGrids(size) ==
    {PatternGrid(size, b[1], b[2], shift) :
        b \in {<<BoxWidth(size), BoxHeight(size)>>,
               <<SolveBoxWidth(size), SolveBoxHeight(size)>>},
        shift \in 0..MaxShift}

\* the sizes up to n for which solve runs: from size 4 on isValid reads a
\* whole box of bh rows and bw columns, which leaves the grid (and throws)
\* unless the boxes tile it
SudokuSizes(n) ==
    {size \in 1..n :
        size >= 4 => /\ size % SolveBoxWidth(size) = 0
                     /\ size % SolveBoxHeight(size) = 0}

\* SudokuGenerator.generate step 1: the grids solve can end on
SolvedGrids(size) == {grid \in CandidateGrids(size) : SolveCanEndOn(grid, size)}

\* SudokuGenerator.generate (643-697) steps 2 and 3: the cells of `removed`
\* are emptied, the others are fixed
Generate(grid, size, removed) ==
    [size |-> size,
     grid |-> [r \in Rows(size) |-> [c \in Rows(size) |->
                 IF r * size + c \in removed THEN 0 ELSE grid[r][c]]],
     fixed |-> [r \in Rows(size) |-> [c \in Rows(size) |-> r * size + c \notin removed]],
     domains |-> NoDomains]

\* the cells the shuffle of generate can put first
FirstCells(size) == {k \in Cells(size) : k <= MaxFirstCell}

\* SudokuProblem.emptyState without params.initialGrid: generate(size, 0.5),
\* whose removal loop runs while i < 0.5, once, on the first cell of a shuffle
SudokuEmptyStates(size) ==
    {Generate(grid, size, {k}) : grid \in SolvedGrids(size), k \in FirstCells(size)}

\* the cells that carry a digit
FilledCells(state) ==
    {k \in Cells(state.size) :
        state.grid[CellRow(state.size, k)][CellCol(state.size, k)] # 0}

\* get conflicts (63-117): one for every digit already seen in its row, in
\* its column and, from size 4 on, in its box (read row by row)
SudokuConflicts(state) ==
    LET n == state.size
        bw == BoxWidth(n)
        bh == BoxHeight(n)
        seenInRow(r, c) == \E j \in 0..(c - 1) : state.grid[r][j] = state.grid[r][c]
        seenInCol(r, c) == \E i \in 0..(r - 1) : state.grid[i][c] = state.grid[r][c]
        seenInBox(r, c) ==
            \E i \in Rows(bh), j \in Rows(bw) :
                LET rr == (r \div bh) * bh + i
                    cc == (c \div bw) * bw + j
                IN /\ rr < r \/ (rr = r /\ cc < c)
                   /\ state.grid[rr][cc] = state.grid[r][c]
    IN Cardinality({k \in FilledCells(state) : seenInRow(CellRow(n, k), CellCol(n, k))})
       + Cardinality({k \in FilledCells(state) : seenInCol(CellRow(n, k), CellCol(n, k))})
       + (IF n >= 4
             THEN Cardinality({k \in FilledCells(state) :
                                 seenInBox(CellRow(n, k), CellCol(n, k))})
             ELSE 0)

\* get cost (120-130): conflicts plus empty cells
SudokuCost(state) ==
    SudokuConflicts(state) + Cardinality(Cells(state.size) \ FilledCells(state))

\* SudokuProblem.isSolution
SudokuIsSolution(state) == SudokuCost(state) = 0

\* _getPeers (583-616): the rest of the row, then of the column, then, from
\* size 4 on, the cells of the box in other rows and columns
GetPeers(state, r, c) ==
    LET n == state.size
        bw == BoxWidth(n)
        bh == BoxHeight(n)
        br == (r \div bh) * bh
        bc == (c \div bw) * bw
        rowPeers == [i \in 1..(n - 1) |-> <<r, IF i - 1 < c THEN i - 1 ELSE i>>]
        colPeers == [i \in 1..(n - 1) |-> <<IF i - 1 < r THEN i - 1 ELSE i, c>>]
        boxCells == [i \in 1..(bh * bw) |->
                        <<br + ((i - 1) \div bw), bc + ((i - 1) % bw)>>]
    IN rowPeers \o colPeers
       \o (IF n >= 4 THEN SelectSeq(boxCells, LAMBDA p : p[1] # r /\ p[2] # c)
           ELSE << >>)

\* _prunePeers (618-632): val is filtered out of the domains of the peers in
\* turn, and the loop returns at the first domain that val empties, whether
\* that peer is assigned or not; no cell is a peer twice, so the peer it
\* stops at is the first whose domain holds val and nothing else
PrunePeers(domains, state, r, c, val) ==
    LET without(d) == SelectSeq(d, LAMBDA v : v # val)
        emptied(peers) ==
            {i \in 1..Len(peers) :
                /\ val \in Range(domains[peers[i][1]][peers[i][2]])
                /\ without(domains[peers[i][1]][peers[i][2]]) = << >>}
        visited(peers, stops) ==
            {peers[i] : i \in 1..(IF stops = {} THEN Len(peers) ELSE MinOf(stops))}
        pruned(peers, stops) ==
            {[domains |-> [pr \in Rows(state.size) |-> [pc \in Rows(state.size) |->
                             IF <<pr, pc>> \in cells THEN without(domains[pr][pc])
                             ELSE domains[pr][pc]]],
              possible |-> stops = {}] : cells \in {visited(peers, stops)}}
    IN CHOOSE result \in
           UNION {UNION {pruned(peers, stops) : stops \in {emptied(peers)}} :
                     peers \in {GetPeers(state, r, c)}} : TRUE

\* the body of the loops of initializeDomains for cell k: the domain of a
\* filled cell becomes [val] and its peers are pruned; the result of
\* _prunePeers is not looked at
InitializeCell(domains, state, k) ==
    LET r == CellRow(state.size, k)
        c == CellCol(state.size, k)
        val == state.grid[r][c]
    IN IF val # 0
       THEN PrunePeers([domains EXCEPT ![r][c] = <<val>>], state, r, c, val).domains
       ELSE domains

RECURSIVE InitializeCells(_, _, _, _)
\* the loops of initializeDomains over the cells lo..hi in row-major order
\* (the first half of the range, then the second)
InitializeCells(domains, state, lo, hi) ==
    IF lo = hi THEN InitializeCell(domains, state, lo)
    ELSE CHOOSE result \in
             {InitializeCells(half, state, ((lo + hi) \div 2) + 1, hi) :
                 half \in {InitializeCells(domains, state, lo, (lo + hi) \div 2)}} : TRUE

\* SudokuProblem.initializeDomains (462-485)
SudokuInitializeDomains(state) ==
    CHOOSE result \in
        {InitializeCells(all, state, 0, state.size * state.size - 1) :
            all \in {[r \in Rows(state.size) |-> [c \in Rows(state.size) |->
                        [i \in 1..state.size |-> i]]]}} : TRUE

\* SudokuProblem.getUnassignedVariables: the empty cells in row-major order
SudokuGetUnassignedVariables(state) ==
    SelectSeq(CellsSeq(state.size), LAMBDA k : k \notin FilledCells(state))

\* SudokuProblem.getDomainSize
SudokuGetDomainSize(state, variable) ==
    IF state.domains # NoDomains
    THEN Len(state.domains[CellRow(state.size, variable)][CellCol(state.size, variable)])
    ELSE 999

\* SudokuProblem.getDomainValues
SudokuGetDomainValues(state, variable) ==
    state.domains[CellRow(state.size, variable)][CellCol(state.size, variable)]

\* SudokuProblem.applyMove
SudokuApplyMove(state, variable, value, newDomains) ==
    [size |-> state.size,
     grid |-> [state.grid EXCEPT
                 ![CellRow(state.size, variable)][CellCol(state.size, variable)] = value],
     fixed |-> state.fixed,
     domains |-> newDomains]

\* SudokuProblem.propagate (530-541)
SudokuPropagate(state, variable, value) ==
    LET r == CellRow(state.size, variable)
        c == CellCol(state.size, variable)
    IN CHOOSE result \in
           {[domains |-> pruned.domains, success |-> pruned.possible] :
               pruned \in {PrunePeers([state.domains EXCEPT ![r][c] = <<value>>],
                                      state, r, c, value)}} : TRUE

(***************************************************************************)
(* bfs, dfs, backtracking, forwardChecking, arcConsistency                 *)
(* (constructive-algorithms.js 135-451) on NQueensProblem, and             *)
(* forwardChecking on SudokuProblem                                        *)
(***************************************************************************)
BlindAlgorithms == {"bfs", "dfs", "backtracking"}
PropagatingAlgorithms == {"forwardChecking", "arcConsistency"}
Heuristics == {"inOrder", "random", "mrv", "leastConstrained"}

\* the board of the blind-search scenario and its iteration cap
ScenarioSize == 8
ScenarioMaxIter == 10

\* the default of params.maxIterations
DefaultMaxIter == 10000

\* const maxIter = params.maxIterations || 10000
MaxIter(maxIterations) == IF maxIterations = 0 THEN DefaultMaxIter ELSE maxIterations

\* TSPState as the blind searches build it: the tour so far, on n cities
TSPTour(tour, n) == [tour |-> tour, cities |-> n]

GetTSPSuccessorsRevisiting(state) ==
    IF Len(state.tour) >= state.cities THEN << >>
    ELSE [k \in 1..state.cities |-> TSPTour(Append(state.tour, k - 1), state.cities)]

\* getTSPSuccessors (constructive-algorithms.js 49-66): one state per city
\* not yet on the tour, in the order of the city indices
GetTSPSuccessors(state) ==
    IF Len(state.tour) >= state.cities THEN << >>
    ELSE LET open == SelectSeq([k \in 1..state.cities |-> k - 1],
                               LAMBDA city : city \notin Range(state.tour))
         IN [k \in 1..Len(open) |-> TSPTour(Append(state.tour, open[k]), state.cities)]

\* getSuccessors (119-127) for the problems with the ids 'tsp' and 'n-queens'
GetSuccessors(state) ==
    IF csp_problem = "tsp" THEN GetTSPSuccessors(state) ELSE GetNQueensSuccessors(state)

(***************************************************************************)
(* MapColoringProblem on the Australia graph (problems/map-coloring.js):   *)
(* a state is [assignments, domains, numColors]; assignments[i] is a       *)
(* colour or Null.                                                         *)
(***************************************************************************)
\* AUSTRALIA_ADJACENCY through buildGraph: adjList, in the order of the names
\* WA, NT, SA, Q, NSW, V, T
AustraliaAdjList ==
    <<{1, 2}, {0, 2, 3}, {0, 1, 3, 4, 5}, {1, 2, 4}, {2, 3, 5}, {2, 4}, {}>>

Regions == 0..(Len(AustraliaAdjList) - 1)

\* the index of South Australia
SouthAustralia == 2

\* numColors of the default parameters
DefaultColors == 3

\* emptyState(params)
MapEmptyState ==
    [assignments |-> [i \in Regions |-> Null], domains |-> NoDomains,
     numColors |-> DefaultColors]

\* getUnassignedVariables
MapGetUnassignedVariables(state) ==
    SelectSeq([k \in 1..Len(AustraliaAdjList) |-> k - 1],
              LAMBDA i : state.assignments[i] = Null)

\* getDomainSize
MapGetDomainSize(state, variable) ==
    IF state.domains # NoDomains THEN Len(state.domains[variable]) ELSE state.numColors

\* adjList with the neighbours in the order buildGraph pushes them
AustraliaAdjOrder ==
    <<(<<1, 2>>), (<<0, 2, 3>>), (<<0, 1, 3, 4, 5>>), (<<1, 2, 4>>), (<<3, 2, 5>>),
      (<<2, 4>>), (<< >>)>>

\* initializeDomains (409-415)
MapInitializeDomains(state) == [i \in Regions |-> RowsSeq(state.numColors)]

\* selectUnassignedVariable (417-422)
MapSelectUnassignedVariable(state) ==
    IF MapGetUnassignedVariables(state) = << >> THEN Null
    ELSE Head(MapGetUnassignedVariables(state))

\* isSolution (346-348): no region without a colour, no edge with one colour
\* at both ends
MapIsSolution(state) ==
    /\ \A i \in Regions : state.assignments[i] # Null
    /\ \A i \in Regions : \A j \in AustraliaAdjList[i + 1] :
          state.assignments[i] # state.assignments[j]

\* applyMove (445-451)
MapApplyMove(state, variable, value, newDomains) ==
    [assignments |-> [state.assignments EXCEPT ![variable] = value],
     domains |-> newDomains,
     numColors |-> state.numColors]

\* propagate (454-467): the colour is taken from every neighbour without a
\* colour; a wipeout is reported after all of them were pruned
MapPropagate(state, variable, value) ==
    LET pruned(i) == i \in AustraliaAdjList[variable + 1] /\ state.assignments[i] = Null
        nextDomains ==
            [i \in Regions |->
                IF i = variable THEN <<value>>
                ELSE IF pruned(i)
                     THEN SelectSeq(state.domains[i], LAMBDA c : c # value)
                     ELSE state.domains[i]]
    IN [domains |-> nextDomains,
        success |-> \A i \in Regions : pruned(i) => nextDomains[i] # << >>]

\* _revise (508-518): the colours of xi that differ from some colour of xj
MapRevise(domains, xi, xj) ==
    SelectSeq(domains[xi], LAMBDA x : \E y \in Range(domains[xj]) : x # y)

\* the arcs (k, target) for the neighbours k of target other than excluded
MapArcs(target, excluded) ==
    LET ks == SelectSeq(AustraliaAdjOrder[target + 1],
                        LAMBDA k : k # excluded /\ k # target)
    IN [i \in 1..Len(ks) |-> <<ks[i], target>>]

RECURSIVE MapInitialPrune(_, _, _, _, _, _)
\* propagateAC3, the initial prune (476-490) from the idx-th neighbour of
\* variable on: returns at the first wiped neighbour
MapInitialPrune(state, domains, variable, value, idx, queue) ==
    IF idx > Len(AustraliaAdjOrder[variable + 1])
    THEN [domains |-> domains, queue |-> queue, possible |-> TRUE]
    ELSE LET neighbor == AustraliaAdjOrder[variable + 1][idx]
         IN IF state.assignments[neighbor] # Null
            THEN MapInitialPrune(state, domains, variable, value, idx + 1, queue)
            ELSE LET filtered == SelectSeq(domains[neighbor], LAMBDA c : c # value)
                     next == [domains EXCEPT ![neighbor] = filtered]
                 IN IF filtered = << >>
                    THEN [domains |-> next, queue |-> queue, possible |-> FALSE]
                    ELSE MapInitialPrune(state, next, variable, value, idx + 1,
                                         IF Len(filtered) < Len(domains[neighbor])
                                            THEN queue \o MapArcs(neighbor, variable)
                                            ELSE queue)

RECURSIVE MapProcessQueue(_, _)
\* propagateAC3, the queue (493-503)
MapProcessQueue(domains, queue) ==
    IF queue = << >> THEN [domains |-> domains, success |-> TRUE]
    ELSE LET xi == Head(queue)[1]
             xj == Head(queue)[2]
             revised == MapRevise(domains, xi, xj)
             next == [domains EXCEPT ![xi] = revised]
         IN IF Len(revised) < Len(domains[xi])
            THEN IF revised = << >>
                 THEN [domains |-> next, success |-> FALSE]
                 ELSE MapProcessQueue(next, Tail(queue) \o MapArcs(xi, xj))
            ELSE MapProcessQueue(domains, Tail(queue))

\* propagateAC3 (470-506)
MapPropagateAC3(state, variable, value) ==
    LET first == MapInitialPrune(state, [state.domains EXCEPT ![variable] = <<value>>],
                                 variable, value, 1, << >>)
    IN IF first.possible THEN MapProcessQueue(first.domains, first.queue)
       ELSE [domains |-> first.domains, success |-> FALSE]

\* problem.isSolution(current); TSPProblem.isSolution is `return false`
\* (tsp.js 147-149)
CSPIsSolution(state) ==
    CASE csp_problem = "sudoku" -> SudokuIsSolution(state)
      [] csp_problem = "tsp" -> FALSE
      [] csp_problem = "map-coloring" -> MapIsSolution(state)
      [] OTHER -> NQIsSolution(state)

\* problem.getUnassignedVariables(state)
UnassignedVariables(state) ==
    CASE csp_problem = "sudoku" -> SudokuGetUnassignedVariables(state)
      [] csp_problem = "map-coloring" -> MapGetUnassignedVariables(state)
      [] OTHER -> GetUnassignedVariables(state)

\* getDomainSize (510-523): problem.getDomainSize is preferred
GetDomainSize(state, variable) ==
    CASE csp_problem = "sudoku" -> SudokuGetDomainSize(state, variable)
      [] csp_problem = "map-coloring" -> MapGetDomainSize(state, variable)
      [] OTHER -> NQGetDomainSize(state, variable)

\* problem.getDomainValues(current, variable) (lines 345-353)
GetDomainValues(state, variable) ==
    IF csp_problem = "sudoku" THEN SudokuGetDomainValues(state, variable)
    ELSE state.domains[variable]

\* problem.applyMove(current, variable, value, nextDomains)
Move(state, variable, value, newDomains) ==
    CASE csp_problem = "sudoku" -> SudokuApplyMove(state, variable, value, newDomains)
      [] csp_problem = "map-coloring" -> MapApplyMove(state, variable, value, newDomains)
      [] OTHER -> ApplyMove(state, variable, value, newDomains)

\* state: null in a record
NoState == [size |-> 0, queens |-> << >>, domains |-> NoDomains]

\* no value loop is suspended
NoLoop == [variable |-> Null, i |-> -1]

Last(s) == s[Len(s)]

Front(s) == SubSeq(s, 1, Len(s) - 1)

Reverse(s) == [i \in 1..Len(s) |-> s[Len(s) + 1 - i]]

\* selectVariable (458-508): the variables the heuristic can return
SelectVariable(state, heuristic) ==
    LET unassigned == UnassignedVariables(state)
        sizeOf(i) == GetDomainSize(state, unassigned[i])
        \* the first index that no other index beats
        firstBest(better(_, _)) ==
            CHOOSE i \in 1..Len(unassigned) :
                /\ \A j \in 1..Len(unassigned) : ~better(sizeOf(j), sizeOf(i))
                /\ \A j \in 1..(i - 1) : better(sizeOf(i), sizeOf(j))
    IN IF unassigned = << >> THEN {Null}
       ELSE CASE heuristic = "random" -> Range(unassigned)
              [] heuristic = "mrv" ->
                    {unassigned[firstBest(LAMBDA a, b : a < b)]}
              [] heuristic = "leastConstrained" ->
                    {unassigned[firstBest(LAMBDA a, b : a > b)]}
              [] OTHER -> {unassigned[1]}

\* the variables the running algorithm can pick at a node: selectVariable in
\* forwardChecking (line 335), problem.selectUnassignedVariable in
\* arcConsistency (line 419)
VariableChoices(state) ==
    IF csp_alg = "forwardChecking" THEN SelectVariable(state, csp_heuristic)
    ELSE IF csp_problem = "map-coloring" THEN {MapSelectUnassignedVariable(state)}
    ELSE {SelectUnassignedVariable(state)}

\* problem.propagate in forwardChecking (line 361), problem.propagateAC3 in
\* arcConsistency (line 429)
PropagateFor(alg, state, variable, value) ==
    CASE csp_problem = "map-coloring" ->
            IF alg = "arcConsistency" THEN MapPropagateAC3(state, variable, value)
            ELSE MapPropagate(state, variable, value)
      [] alg = "arcConsistency" -> PropagateAC3(state, variable, value)
      [] csp_problem = "sudoku" -> SudokuPropagate(state, variable, value)
      [] OTHER -> Propagate(state, variable, value)

RECURSIVE ValueLoop(_, _, _, _, _, _)
\* lines 356-381 and 425-445: the loop over the values of the variable, from
\* index i down; it runs to its end or to the first failing value, whose
\* broken state is yielded
ValueLoop(alg, current, variable, i, stack, evaluations) ==
    IF i < 0
    THEN [frontier |-> stack, evaluations |-> evaluations, failed |-> FALSE,
          failState |-> NoState, loop |-> NoLoop]
    ELSE LET value == GetDomainValues(current, variable)[i + 1]
             after(result, moved) ==
                 IF result.success
                 THEN ValueLoop(alg, current, variable, i - 1, Append(stack, moved),
                                evaluations + 1)
                 ELSE [frontier |-> stack, evaluations |-> evaluations,
                       failed |-> TRUE, failState |-> moved,
                       loop |-> [variable |-> variable, i |-> i - 1]]
         IN CHOOSE out \in
                {after(result, Move(current, variable, value, result.domains)) :
                    result \in {PropagateFor(alg, current, variable, value)}} : TRUE

IsValidNever(state) == FALSE

IsValidAlways(state) == TRUE

\* backtracking lines 267-275: the constraint check on the node
IsValid(state) == GetAttackingQueens(state) = {}

\* what the rest of the loop body does to the frontier, for one choice of
\* the variable
Expansion(variable) ==
    CASE csp_alg = "bfs" ->
            [frontier |-> csp_frontier \o GetSuccessors(csp_current),
             evaluations |-> csp_evaluations + Len(GetSuccessors(csp_current)),
             failed |-> FALSE, failState |-> NoState, loop |-> NoLoop]
      [] csp_alg = "dfs" \/ (csp_alg = "backtracking" /\ IsValid(csp_current)) ->
            [frontier |-> csp_frontier \o Reverse(GetSuccessors(csp_current)),
             evaluations |-> csp_evaluations + Len(GetSuccessors(csp_current)),
             failed |-> FALSE, failState |-> NoState, loop |-> NoLoop]
      [] csp_alg = "backtracking" ->
            [frontier |-> csp_frontier, evaluations |-> csp_evaluations,
             failed |-> FALSE, failState |-> NoState, loop |-> NoLoop]
      [] OTHER ->
            IF variable = Null
            THEN [frontier |-> csp_frontier, evaluations |-> csp_evaluations,
                  failed |-> FALSE, failState |-> NoState, loop |-> NoLoop]
            ELSE ValueLoop(csp_alg, csp_current, variable,
                           IF csp_pc = "pruned" THEN csp_loop.i
                           ELSE Len(GetDomainValues(csp_current, variable)) - 1,
                           csp_frontier, csp_evaluations)

\* the variable of the suspended value loop, or the choices at a fresh node
LoopVariables ==
    IF csp_alg \in BlindAlgorithms THEN {Null}
    ELSE IF csp_pc = "pruned" THEN {csp_loop.variable}
    ELSE VariableChoices(csp_current)

\* queue.shift() / stack.pop()
TakeFrom(frontier) == IF csp_alg = "bfs" THEN Head(frontier) ELSE Last(frontier)

RestOf(frontier) == IF csp_alg = "bfs" THEN Tail(frontier) ELSE Front(frontier)

CSPRecord(state, note, evaluations) ==
    [state |-> state, note |-> note, evaluations |-> evaluations]

\* a problem and size with an iteration cap: the small boards of N-Queens
\* with every cap for every algorithm, the scenario board with the scenario
\* cap for the two blind searches it is about, and for forwardChecking the
\* small Sudoku grids with every cap and the grid of size WideBoxSize
CSPConfigs(alg) ==
    ({"n-queens"} \X (1..MaxN) \X (0..MaxIterB))
    \cup (IF alg \in {"bfs", "dfs"}
             THEN {<<"n-queens", ScenarioSize, ScenarioMaxIter>>} ELSE {})
    \cup (IF alg = "forwardChecking"
             THEN ({"sudoku"} \X SudokuSizes(MaxSudokuN) \X (0..MaxIterB))
                  \cup {<<"sudoku", WideBoxSize, 0>>}
             ELSE {})

CSPIdle ==
    /\ csp_alg = "bfs" /\ csp_problem = "n-queens"
    /\ csp_size = 0 /\ csp_maxIterations = 0
    /\ csp_heuristic = "inOrder" /\ csp_pc = "off"
    /\ csp_frontier = << >> /\ csp_current = NoState /\ csp_loop = NoLoop
    /\ csp_evaluations = 0 /\ csp_steps = 0 /\ csp_rec = NoRec /\ csp_trace = << >>

CSPInit ==
    /\ csp_alg \in BlindAlgorithms \cup PropagatingAlgorithms
    /\ \E cfg \in CSPConfigs(csp_alg) :
          csp_problem = cfg[1] /\ csp_size = cfg[2] /\ csp_maxIterations = cfg[3]
    /\ csp_heuristic \in Heuristics
    /\ csp_pc = "new"
    /\ csp_frontier = << >> /\ csp_current = NoState /\ csp_loop = NoLoop
    /\ csp_evaluations = 0 /\ csp_steps = 0 /\ csp_rec = NoRec /\ csp_trace = << >>

CSPConst ==
    UNCHANGED <<exceptCSP, csp_alg, csp_problem, csp_size, csp_maxIterations,
                csp_heuristic>>

\* problem.emptyState(params): the empty board, a generated puzzle, or the
\* empty tour on params.cities (tsp.js 133-142)
EmptyStates ==
    CASE csp_problem = "sudoku" -> SudokuEmptyStates(csp_size)
      [] csp_problem = "tsp" -> {TSPTour(<< >>, csp_size)}
      [] csp_problem = "map-coloring" -> {[MapEmptyState EXCEPT !.numColors = csp_size]}
      [] OTHER -> {EmptyState(csp_size)}

\* the roots: problem.emptyState(params), with initializeDomains for the two
\* propagating algorithms (lines 296-319, 394-404)
Roots ==
    IF csp_alg \in PropagatingAlgorithms
    THEN {[empty EXCEPT !.domains =
                CASE csp_problem = "sudoku" -> SudokuInitializeDomains(empty)
                  [] csp_problem = "map-coloring" -> MapInitializeDomains(empty)
                  [] OTHER -> InitializeDomains(empty)] :
             empty \in EmptyStates}
    ELSE EmptyStates

\* the note of a node record
NodeNote ==
    CASE csp_alg = "bfs" -> "BFS Queue"
      [] csp_alg = "dfs" -> "DFS Stack"
      [] csp_alg = "backtracking" -> "Backtrack Stack"
      [] csp_alg = "forwardChecking" -> "FC Stack"
      [] OTHER -> "AC-3 Stack"

\* first advance: the root is put on the frontier, taken off it and yielded
CSPStart ==
    /\ csp_pc = "new"
    /\ csp_frontier' = << >>
    /\ \E root \in Roots :
          /\ csp_current' = root
          /\ csp_rec' = CSPRecord(root, NodeNote, 0)
          /\ csp_trace' = <<[state |-> root, kind |-> "node"]>>
    /\ csp_steps' = 1
    /\ csp_pc' = "node"
    /\ UNCHANGED <<csp_loop, csp_evaluations>>
    /\ CSPConst

\* the goal test after a node record
CSPSolution ==
    /\ csp_pc = "node"
    /\ CSPIsSolution(csp_current)
    /\ csp_rec' = CSPRecord(csp_current, "Solution Found!", csp_evaluations)
    /\ csp_pc' = "done"
    /\ UNCHANGED <<csp_frontier, csp_current, csp_loop, csp_evaluations, csp_steps,
                   csp_trace>>
    /\ CSPConst

StepsExhaustedLate(steps, maxIter) == steps > maxIter

\* if (steps >= maxIter)
StepsExhausted(steps, maxIter) == steps >= maxIter

\* bfs 171-174, dfs 215-218, backtracking 260-263; forwardChecking and
\* arcConsistency have no such test
CSPCapReached ==
    /\ csp_alg \in BlindAlgorithms
    /\ StepsExhausted(csp_steps, MaxIter(csp_maxIterations))

CSPStopped ==
    /\ csp_pc = "node"
    /\ ~CSPIsSolution(csp_current)
    /\ CSPCapReached
    /\ csp_rec' = CSPRecord(csp_current, "Stopped (Max Iterations)", csp_evaluations)
    /\ csp_pc' = "done"
    /\ UNCHANGED <<csp_frontier, csp_current, csp_loop, csp_evaluations, csp_steps,
                   csp_trace>>
    /\ CSPConst

\* the generator goes on with the loop body
CSPContinues ==
    \/ csp_pc = "pruned"
    \/ /\ csp_pc = "node"
       /\ ~CSPIsSolution(csp_current)
       /\ ~CSPCapReached

CSPPrunedStatePushed ==
    /\ CSPContinues
    /\ \E variable \in LoopVariables : \E e \in {Expansion(variable)} :
             /\ e.failed
             /\ csp_frontier' = Append(e.frontier, e.failState)
             /\ csp_evaluations' = e.evaluations
             /\ csp_loop' = e.loop
             /\ csp_rec' = CSPRecord(e.failState,
                                     IF csp_alg = "arcConsistency"
                                        THEN "AC-3 Inconsistency"
                                        ELSE "Pruned (Wipeout)",
                                     e.evaluations + 1)
             /\ csp_trace' = Append(csp_trace, [state |-> e.failState, kind |-> "pruned"])
    /\ csp_pc' = "pruned"
    /\ UNCHANGED <<csp_current, csp_steps>>
    /\ CSPConst

\* forwardChecking 371-376, arcConsistency 437-441: the broken state of a
\* failing value is yielded; evaluations is reported one higher, not counted
CSPPruned ==
    /\ CSPContinues
    /\ \E variable \in LoopVariables : \E e \in {Expansion(variable)} :
             /\ e.failed
             /\ csp_frontier' = e.frontier
             /\ csp_evaluations' = e.evaluations
             /\ csp_loop' = e.loop
             /\ csp_rec' = CSPRecord(e.failState,
                                     IF csp_alg = "arcConsistency"
                                        THEN "AC-3 Inconsistency"
                                        ELSE "Pruned (Wipeout)",
                                     e.evaluations + 1)
             /\ csp_trace' = Append(csp_trace, [state |-> e.failState, kind |-> "pruned"])
    /\ csp_pc' = "pruned"
    /\ UNCHANGED <<csp_current, csp_steps>>
    /\ CSPConst

\* the loop body ends and the next node is taken off the frontier
CSPNextNode ==
    /\ CSPContinues
    /\ \E variable \in LoopVariables : \E e \in {Expansion(variable)} :
             /\ ~e.failed
             /\ e.frontier # << >>
             /\ csp_current' = TakeFrom(e.frontier)
             /\ csp_frontier' = RestOf(e.frontier)
             /\ csp_evaluations' = e.evaluations
             /\ csp_rec' = CSPRecord(TakeFrom(e.frontier), NodeNote, e.evaluations)
             /\ csp_trace' = Append(csp_trace,
                                    [state |-> TakeFrom(e.frontier), kind |-> "node"])
    /\ csp_loop' = NoLoop
    /\ csp_steps' = csp_steps + 1
    /\ csp_pc' = "node"
    /\ CSPConst

\* the frontier is empty: 'No Solution Found'
CSPExhausted ==
    /\ CSPContinues
    /\ \E variable \in LoopVariables : \E e \in {Expansion(variable)} :
             /\ ~e.failed
             /\ e.frontier = << >>
             /\ csp_evaluations' = e.evaluations
             /\ csp_rec' = CSPRecord(NoState, "No Solution Found", e.evaluations)
    /\ csp_frontier' = << >>
    /\ csp_loop' = NoLoop
    /\ csp_pc' = "done"
    /\ UNCHANGED <<csp_current, csp_steps, csp_trace>>
    /\ CSPConst

\* what next() hands to the caller of a generator: the record of the yield
\* it stopped at, or, at a `return` without operand, no value and done
Undefined == [undefined |-> TRUE]
NextResult(pc, rec) ==
    IF pc = "returned" THEN [value |-> Undefined, done |-> TRUE]
    ELSE [value |-> rec, done |-> FALSE]

(***************************************************************************)
(* Specifications: one per algorithm; the variables of the others idle     *)
(***************************************************************************)
InitHC ==
    ProblemInit /\ HCInit /\ SAIdle /\ BeamIdle /\ GAIdle /\ CSPIdle /\ ExtrasIdle

NextHC ==
    \/ HCStart
    \/ HCSolution
    \/ HCThrow
    \/ HCImproved
    \/ HCSideways
    \/ HCStuckRestarting
    \/ HCStuckFinal
    \/ HCRestart
    \/ HCReturn

SpecHC == InitHC /\ [][NextHC]_vars

InitSA ==
    ProblemInit /\ HCIdle /\ SAInit /\ BeamIdle /\ GAIdle /\ CSPIdle /\ ExtrasIdle

NextSA ==
    \/ SAStart
    \/ SASolution
    \/ SAFrozen
    \/ SAThrow
    \/ SAImproved
    \/ SAAcceptedWorse
    \/ SAStay
    \/ SAReturn

SpecSA == InitSA /\ [][NextSA]_vars

\* the driver advances a generator that has not completed
FairSpecSA == SpecSA /\ WF_vars(NextSA)

InitBeam ==
    ProblemInit /\ HCIdle /\ SAIdle /\ BeamInit /\ GAIdle /\ CSPIdle /\ ExtrasIdle

NextBeam ==
    \/ BeamStart
    \/ BeamSolution
    \/ BeamGeneration
    \/ BeamStuckRestarting
    \/ BeamStuckFinal

SpecBeam == InitBeam /\ [][NextBeam]_vars

\* localBeamSearch on the plateau problems (every state has the same cost);
\* the driver keeps advancing a generator that is not finished
Plateau == \A x \in X : Cost(x) = Cost(0)

\* Algorithms.localBeamSearch(null, params, problem) called on a plateau problem
BeamCreatePlateau ==
    /\ beam_pc = "off"
    /\ \E c \in Costs : landscape' = [x \in X |-> c]
    /\ topology' \in Topologies
    /\ hasGoal' \in BOOLEAN
    /\ beam_width' \in 1..MaxBeamWidth
    /\ beam_variant' \in {"deterministic", "stochastic"}
    /\ beam_maxGenerations' \in 0..MaxGenB
    /\ beam_maxSideways' \in 0..MaxSidewaysB
    /\ beam_maxRestarts' \in 0..MaxRestartsB
    /\ beam_pc' = "new"
    /\ UNCHANGED <<beam_population, beam_best, beam_bestSoFar, beam_sidewaysMoves,
                   beam_gen, beam_restarts, beam_evaluations, beam_rec>>
    /\ UNCHANGED exceptBeam

InitNoRun ==
    /\ landscape = [x \in X |-> 0] /\ topology = "ring" /\ hasGoal = FALSE
    /\ HCIdle /\ SAIdle /\ BeamIdle /\ GAIdle /\ CSPIdle /\ ExtrasIdle

NextBeamPlateau ==
    \/ BeamCreatePlateau
    \/ BeamStart
    \/ BeamSolution
    \/ BeamGeneration
    \/ BeamStuckRestarting
    \/ BeamStuckFinal

FairSpecBeamPlateau ==
    InitNoRun /\ [][NextBeamPlateau]_vars /\ WF_vars(NextBeamPlateau)

\* geneticAlgorithm on the ring-shaped mock problem
InitGA ==
    /\ landscape \in [X -> Costs] /\ topology = "ring" /\ hasGoal \in BOOLEAN
    /\ HCIdle /\ SAIdle /\ BeamIdle /\ GAInit /\ CSPIdle /\ ExtrasIdle

NextGA ==
    \/ GAStart
    \/ GASolution
    \/ GAThrow
    \/ GAGeneration
    \/ GAReturn

SpecGA == InitGA /\ [][NextGA]_vars

\* the five constructive algorithms on N-Queens, forwardChecking on Sudoku
InitCSP ==
    /\ landscape = [x \in X |-> 0] /\ topology = "ring" /\ hasGoal = FALSE
    /\ HCIdle /\ SAIdle /\ BeamIdle /\ GAIdle /\ CSPInit /\ ExtrasIdle

NextCSP ==
    \/ CSPStart
    \/ CSPSolution
    \/ CSPStopped
    \/ CSPPruned
    \/ CSPNextNode
    \/ CSPExhausted

SpecCSP == InitCSP /\ [][NextCSP]_vars

\* bfs, dfs and backtracking, which count their steps; the driver keeps
\* advancing a generator that is not finished
InitBlind == InitCSP /\ csp_alg \in BlindAlgorithms /\ csp_heuristic = "inOrder"

NextBlind ==
    \/ CSPStart
    \/ CSPSolution
    \/ CSPStopped
    \/ CSPNextNode
    \/ CSPExhausted

FairSpecBlind == InitBlind /\ [][NextBlind]_vars /\ WF_vars(NextBlind)

(***************************************************************************)
(* The constructive algorithms against a Problem object that lacks the     *)
(* operation the algorithm needs: N-Queens without propagate and           *)
(* propagateAC3 for forwardChecking and arcConsistency, a problem with a   *)
(* foreign id and no getSuccessors for bfs and dfs.                        *)
(***************************************************************************)
LackingProblem == "n-queens without the operation"

\* getSuccessors (119-127): no problem.getSuccessors and no known id
LackingSuccessors == << >>

\* problem.propagate ? problem.propagate(...) : null (line 361), and the same
\* for propagateAC3 (line 429)
LackingPropagate == Null

InitLacking ==
    /\ landscape = [x \in X |-> 0] /\ topology = "ring" /\ hasGoal = FALSE
    /\ HCIdle /\ SAIdle /\ BeamIdle /\ GAIdle /\ ExtrasIdle
    /\ csp_alg \in {"bfs", "dfs"} \cup PropagatingAlgorithms
    /\ csp_problem = LackingProblem
    /\ csp_size \in 1..MaxN /\ csp_maxIterations \in 0..MaxIterB
    /\ csp_heuristic \in Heuristics
    /\ csp_pc = "new"
    /\ csp_frontier = << >> /\ csp_current = NoState /\ csp_loop = NoLoop
    /\ csp_evaluations = 0 /\ csp_steps = 0 /\ csp_rec = NoRec /\ csp_trace = << >>

\* the index the value loop stands at: resumed after a record, or the last
\* value of the variable just selected
LackingLoopIndex(variable) ==
    IF csp_pc = "pruned" THEN csp_loop.i
    ELSE Len(GetDomainValues(csp_current, variable)) - 1

\* lines 377-380 and 442-444: result is null, the node itself is yielded as
\* 'Pruned (Invalid Move)' / 'AC-3 Pruned' for every value of the variable
LackingInvalidMove ==
    /\ CSPContinues
    /\ csp_alg \in PropagatingAlgorithms
    /\ LackingPropagate = Null
    /\ \E variable \in LoopVariables :
          /\ variable # Null
          /\ LackingLoopIndex(variable) >= 0
          /\ csp_loop' = [variable |-> variable, i |-> LackingLoopIndex(variable) - 1]
    /\ csp_rec' = CSPRecord(csp_current,
                            IF csp_alg = "arcConsistency" THEN "AC-3 Pruned"
                            ELSE "Pruned (Invalid Move)",
                            csp_evaluations + 1)
    /\ csp_trace' = Append(csp_trace, [state |-> csp_current, kind |-> "pruned"])
    /\ csp_pc' = "pruned"
    /\ UNCHANGED <<csp_frontier, csp_current, csp_evaluations, csp_steps>>
    /\ CSPConst

\* nothing was pushed: the frontier is empty after the root and the run ends
\* with 'No Solution Found' (lines 184-185, 229-230, 387-388, 449-450)
LackingExhausted ==
    /\ CSPContinues
    /\ \/ csp_alg \in BlindAlgorithms /\ csp_frontier \o LackingSuccessors = << >>
       \/ /\ csp_alg \in PropagatingAlgorithms
          /\ \E variable \in LoopVariables :
                variable = Null \/ LackingLoopIndex(variable) < 0
    /\ csp_rec' = CSPRecord(NoState, "No Solution Found", csp_evaluations)
    /\ csp_loop' = NoLoop
    /\ csp_pc' = "done"
    /\ UNCHANGED <<csp_frontier, csp_current, csp_evaluations, csp_steps, csp_trace>>
    /\ CSPConst

\* the empty board is no solution, so the goal test after the root fails
NextLacking ==
    \/ CSPStart
    \/ CSPStopped
    \/ LackingInvalidMove
    \/ LackingExhausted

SpecLacking == InitLacking /\ [][NextLacking]_vars

\* forwardChecking on N-Queens with every variable heuristic; it has no
\* iteration cap
InitFC ==
    InitCSP /\ csp_alg = "forwardChecking" /\ csp_problem = "n-queens"

NextFC ==
    \/ CSPStart
    \/ CSPSolution
    \/ CSPPruned
    \/ CSPNextNode
    \/ CSPExhausted

FairSpecFC == InitFC /\ [][NextFC]_vars /\ WF_vars(NextFC)

\* the tours of k = 0..n different cities: the nodes of the search tree
Tours(n) ==
    {tour \in UNION {[1..k -> 0..(n - 1)] : k \in 0..n} :
        \A i \in DOMAIN tour : \A j \in DOMAIN tour : tour[i] = tour[j] => i = j}

\* dfs and bfs on TSP with params.cities given; the cap is the default or a
\* number up to one more than the nodes of the largest tree
InitTSP ==
    /\ landscape = [x \in X |-> 0] /\ topology = "ring" /\ hasGoal = FALSE
    /\ HCIdle /\ SAIdle /\ BeamIdle /\ GAIdle /\ ExtrasIdle
    /\ csp_alg \in {"bfs", "dfs"}
    /\ csp_problem = "tsp"
    /\ csp_size \in 0..MaxCities
    /\ csp_maxIterations \in 0..(Cardinality(Tours(MaxCities)) + 1)
    /\ csp_heuristic = "inOrder"
    /\ csp_pc = "new"
    /\ csp_frontier = << >> /\ csp_current = NoState /\ csp_loop = NoLoop
    /\ csp_evaluations = 0 /\ csp_steps = 0 /\ csp_rec = NoRec /\ csp_trace = << >>

\* TSPProblem.isSolution is never true: no 'Solution Found!' record
NextTSP ==
    \/ CSPStart
    \/ CSPStopped
    \/ CSPNextNode
    \/ CSPExhausted

FairSpecTSP == InitTSP /\ [][NextTSP]_vars /\ WF_vars(NextTSP)

\* hillClimbing with default parameters on the convex mock problem of the
\* tests: states are integers, the neighbours of x are x - 1 and x + 1, the
\* cost is |x| or x * x and cost 0 is the solution. A start within
\* MaxEvals / 2 of 0 is followed to its end (two neighbours are evaluated
\* per move).
ConvexStarts == (0 - (MaxEvals \div 2))..(MaxEvals \div 2)

ConvexRange == (0 - (MaxEvals \div 2) - 1)..((MaxEvals \div 2) + 1)

ConvexLandscapes ==
    {[x \in ConvexRange |-> Abs(x)], [x \in ConvexRange |-> x * x]}

InitConvex ==
    /\ landscape \in ConvexLandscapes /\ topology = "line" /\ hasGoal = TRUE
    /\ hc_maxSideways = 0 /\ hc_maxRestarts = 0 /\ hc_tolerance = 0
    /\ hc_pc = "new"
    /\ hc_current \in ConvexStarts
    /\ hc_restarts = 0 /\ hc_sidewaysMoves = 0 /\ hc_evaluations = 0
    /\ hc_rec = NoRec /\ hc_prev = hc_current /\ hc_seen = {}
    /\ hc_initialNull = FALSE /\ hc_draws = 0 /\ hc_streak = 0
    /\ SAIdle /\ BeamIdle /\ GAIdle /\ CSPIdle /\ ExtrasIdle

\* on a convex cost no move is sideways and the run is never stuck
NextConvex ==
    \/ HCStart
    \/ HCSolution
    \/ HCImproved
    \/ HCReturn

\* the driver keeps advancing a generator that is not finished
FairSpecConvex == InitConvex /\ [][NextConvex]_vars /\ WF_vars(NextConvex)

(***************************************************************************)
(* The application (App.jsx): step and runBatch advancing one generator.   *)
(* A record is seen through what the two handlers read of it: whether it   *)
(* carries a state, the cost of the state and problem.isSolution of it.    *)
(* The same record sequence is driven once with step() and once with       *)
(* runBatch(batchSize).                                                    *)
(***************************************************************************)
\* a record whose state is null
NullState == [cost |-> -1, solution |-> FALSE]

\* states that are no solution, and a solution
OpenStates == {[cost |-> c, solution |-> FALSE] : c \in 1..2}
SolutionState == [cost |-> 0, solution |-> TRUE]

\* the sequences of at most n states that are no solution
OpenPrefixes(n) == UNION {[1..k -> OpenStates] : k \in 0..n}

\* the record sequences of the generators: records of states that are no
\* solution, ended by the last of them (hillClimbing 'Stuck', line 80), by a
\* record of a solution and the 'Solution Found!' record of the same state
\* (hillClimbing lines 53 and 21, bfs lines 159 and 167), or by a record
\* without state (bfs 'No Solution Found (Exhausted)', line 185)
RecordSequences ==
    {p \in OpenPrefixes(MaxRecords) : Len(p) >= 1}
    \cup {p \o <<SolutionState, SolutionState>> : p \in OpenPrefixes(MaxRecords)}
    \cup {p \o <<NullState>> : p \in {q \in OpenPrefixes(MaxRecords) : Len(q) >= 1}}

\* resetToState (lines 130-153) on the state the run starts from, which is
\* complete: isFinished false, the iterator dropped, history [state.cost];
\* pos counts the advances of the iterator created by startAlgorithm
ResetToState(state) ==
    [pos |-> 0, finished |-> FALSE, state |-> state, stepCount |-> 0,
     history |-> <<state.cost>>]

DrvInit ==
    /\ drv_records \in RecordSequences
    /\ drv_single = ResetToState(drv_records[1])
    /\ drv_batch = ResetToState(drv_records[1])

\* iteratorRef.current.next(): the next record, or done
IteratorDone(app) == app.pos >= Len(drv_records)

\* step (lines 391-469); the Step button and the timer are off once
\* isFinished is set
StepResult(app) ==
    IF IteratorDone(app)
    THEN [app EXCEPT !.pos = app.pos + 1, !.finished = TRUE]
    ELSE LET value == drv_records[app.pos + 1]
         IN IF value = NullState
            THEN [app EXCEPT !.pos = app.pos + 1, !.finished = TRUE]
            ELSE [pos |-> app.pos + 1,
                  finished |-> value.solution,
                  state |-> value,
                  stepCount |-> app.stepCount + 1,
                  history |-> Append(app.history, value.cost)]

Step ==
    /\ ~drv_single.finished
    /\ drv_single' = StepResult(drv_single)
    /\ UNCHANGED <<drv_records, drv_batch>>
    /\ UNCHANGED <<fnVars, parVars, objVars, shcVars, moreVars, problemVars, hcVars, saVars, beamVars, gaVars,
                   cspVars>>

\* the advances of the loop of runBatch (lines 293-313): it leaves at done
AdvancesOfBatch(app, batchSize) ==
    IF Len(drv_records) - app.pos >= batchSize THEN batchSize
    ELSE Len(drv_records) - app.pos + 1

\* runBatch (lines 276-389)
BatchResult(app, batchSize) ==
    LET advances == AdvancesOfBatch(app, batchSize)
        done == app.pos + advances > Len(drv_records)
        values == SubSeq(drv_records, app.pos + 1,
                         IF done THEN Len(drv_records) ELSE app.pos + advances)
        withState == SelectSeq(values, LAMBDA v : v # NullState)
        batchHistory == [i \in 1..Len(withState) |-> withState[i].cost]
        lastValidState == IF withState = << >> THEN NullState
                          ELSE withState[Len(withState)]
    IN [pos |-> app.pos + advances,
        finished |-> done \/ lastValidState.solution,
        state |-> IF lastValidState = NullState THEN app.state ELSE lastValidState,
        stepCount |-> app.stepCount + Len(batchHistory),
        history |-> app.history \o batchHistory]

RunBatch ==
    /\ ~drv_batch.finished
    /\ \E batchSize \in 1..MaxBatch :
          drv_batch' = BatchResult(drv_batch, batchSize)
    /\ UNCHANGED <<drv_records, drv_single>>
    /\ UNCHANGED <<fnVars, parVars, objVars, shcVars, moreVars, problemVars, hcVars, saVars, beamVars, gaVars,
                   cspVars>>

InitDriver ==
    /\ landscape = [x \in X |-> 0] /\ topology = "ring" /\ hasGoal = FALSE
    /\ HCIdle /\ SAIdle /\ BeamIdle /\ GAIdle /\ CSPIdle
    /\ FnIdle /\ DrvInit /\ ParIdle /\ ObjIdle /\ SHCIdle /\ MoreIdle

NextDriver ==
    \/ Step
    \/ RunBatch

SpecDriver == InitDriver /\ [][NextDriver]_vars

(***************************************************************************)
(* Two generators created on TSPProblem without an initial state           *)
(* (hillClimbing line 11, simulatedAnnealing line 246, localBeamSearch     *)
(* line 313): the first advance of each calls problem.randomState(params). *)
(* The two are created with the same params object or with one each.       *)
(***************************************************************************)
Instances == 1..2

\* params.cities is not set
NoCities == 0

\* what the draws of one instance generate: a city map and a tour
Draws == [cities : 1..MaxMaps, tour : 1..MaxTours]

\* TSPProblem.randomState (tsp.js 101-128): the cities of params, generated
\* and stored in params when there are none; a tour on them
RandomState(cities, draw) ==
    LET used == IF cities = NoCities THEN draw.cities ELSE cities
    IN [state |-> [tour |-> draw.tour, cities |-> used], cities |-> used]

ParInit ==
    /\ par_params \in {[i \in Instances |-> 1], [i \in Instances |-> i]}
    /\ par_cities = [o \in Instances |-> NoCities]
    /\ par_draws \in [Instances -> Draws]
    /\ par_recs = [i \in Instances |-> NoRec]

\* the first advance of instance i: current = problem.randomState(params),
\* then the first record
ParStart(i) ==
    /\ par_recs[i] = NoRec
    /\ \E r \in {RandomState(par_cities[par_params[i]], par_draws[i])} :
          /\ par_cities' = [par_cities EXCEPT ![par_params[i]] = r.cities]
          /\ par_recs' = [par_recs EXCEPT ![i] = [state |-> r.state, note |-> "Initial State"]]
    /\ UNCHANGED <<par_params, par_draws>>
    /\ UNCHANGED <<fnVars, drvVars, objVars, shcVars, moreVars, problemVars, hcVars, saVars, beamVars, gaVars,
                   cspVars>>

InitPar ==
    /\ landscape = [x \in X |-> 0] /\ topology = "ring" /\ hasGoal = FALSE
    /\ HCIdle /\ SAIdle /\ BeamIdle /\ GAIdle /\ CSPIdle
    /\ FnIdle /\ DrvIdle /\ ParInit /\ ObjIdle /\ SHCIdle /\ MoreIdle

NextPar == \E i \in Instances : ParStart(i)

SpecPar == InitPar /\ [][NextPar]_vars

(***************************************************************************)
(* geneticAlgorithm (algorithms.js 454-552) on state objects: a state is   *)
(* an object of the heap, a population a sequence of objects, and          *)
(* problem.mutate writes into the object it is handed. cullRate has its    *)
(* default 0.                                                              *)
(***************************************************************************)
ObjConfigs ==
    [size : 1..MaxBeamWidth, rate : MutationPcts, elitism : BOOLEAN,
     maxGenerations : 0..MaxBeamWidth]

ObjInit ==
    /\ obj_cfg \in ObjConfigs
    /\ obj_pc = "new" /\ obj_gen = 0
    /\ obj_heap = << >> /\ obj_population = << >> /\ obj_emitted = {}

\* population.sort((a, b) => a.cost - b.cost) on objects
SortObjects(heap, pop) ==
    LET costOf(o) == Cost(heap[o]) IN StableSortBy(pop, costOf)

\* the objects a record carries, as they are when it is yielded
Emitted(heap, pop) == {<<pop[i], heap[pop[i]]>> : i \in 1..Len(pop)}

ObjConst ==
    UNCHANGED <<obj_cfg, fnVars, drvVars, parVars, shcVars, moreVars, problemVars, hcVars, saVars,
                beamVars, gaVars, cspVars>>

\* lines 467-487: startingPopulationSize new random states, sorted, and the
\* 'Gen 0' record
ObjStart ==
    /\ obj_pc = "new"
    /\ \E drawn \in [1..obj_cfg.size -> X] :
          /\ obj_heap' = drawn
          /\ obj_population' = SortObjects(drawn, [i \in 1..obj_cfg.size |-> i])
          /\ obj_emitted' = Emitted(drawn, [i \in 1..obj_cfg.size |-> i])
    /\ obj_pc' = "gen"
    /\ UNCHANGED obj_gen
    /\ ObjConst

CrossoverReturnsParent(heap, p1, p2) ==
    [object |-> p1, representation |-> heap[p1]]

\* problem.crossover(parents, params): a new state object built from copies
\* of the parents' genes (n-queens.js 557-580, sudoku.js 362-383, tsp.js
\* 152-189, map-coloring.js 351-362)
CrossoverObject(heap, p1, p2) ==
    [object |-> Len(heap) + 1, representation |-> Crossover(heap[p1], heap[p2])]

\* problem.mutate(childState, mutationRate, params) writes the mutated
\* representation into the object it was handed
MutateInPlace(heap, child, mutated) ==
    IF child.object > Len(heap) THEN Append(heap, mutated)
    ELSE [heap EXCEPT ![child.object] = mutated]

RECURSIVE Breed(_, _, _, _)
\* lines 521-538: children are made until the new population is full
Breed(heap, newPopulation, survivors, cfg) ==
    IF Len(newPopulation) >= cfg.size THEN {[heap |-> heap, population |-> newPopulation]}
    ELSE UNION {UNION {Breed(MutateInPlace(heap, child, mutated),
                             Append(newPopulation, child.object), survivors, cfg) :
                          mutated \in Mutations(child.representation, cfg.rate)} :
                   child \in {CrossoverObject(heap, p1, p2) :
                                 p1 \in TournamentSelect(survivors),
                                 p2 \in TournamentSelect(survivors)}}

\* lines 511-517: survivors[0].clone() is a new object
WithElite(heap, survivors, cfg) ==
    IF cfg.elitism
    THEN [heap |-> Append(heap, heap[survivors[1]]), population |-> <<Len(heap) + 1>>]
    ELSE [heap |-> heap, population |-> << >>]

ObjEntersGeneration ==
    /\ obj_pc = "gen"
    /\ obj_gen + 1 <= obj_cfg.maxGenerations

\* lines 490-493: the record of the solution carries the present population
ObjSolution ==
    /\ ObjEntersGeneration
    /\ IsSolution(obj_heap[obj_population[1]])
    /\ obj_emitted' = obj_emitted \cup Emitted(obj_heap, obj_population)
    /\ obj_pc' = "done"
    /\ UNCHANGED <<obj_gen, obj_heap, obj_population>>
    /\ ObjConst

\* lines 495-551: one generation and its record
ObjGeneration ==
    /\ ObjEntersGeneration
    /\ ~IsSolution(obj_heap[obj_population[1]])
    /\ \E start \in {WithElite(obj_heap, obj_population, obj_cfg)} :
       \E bred \in Breed(start.heap, start.population, obj_population, obj_cfg) :
          /\ obj_heap' = bred.heap
          /\ obj_population' = SortObjects(bred.heap, bred.population)
          /\ obj_emitted' = obj_emitted \cup Emitted(bred.heap, bred.population)
    /\ obj_gen' = obj_gen + 1
    /\ UNCHANGED obj_pc
    /\ ObjConst

\* the loop ends after maxGenerations generations
ObjReturn ==
    /\ obj_pc = "gen"
    /\ ~(obj_gen + 1 <= obj_cfg.maxGenerations)
    /\ obj_pc' = "done"
    /\ UNCHANGED <<obj_gen, obj_heap, obj_population, obj_emitted>>
    /\ ObjConst

InitObj ==
    /\ landscape = [x \in X |-> x] /\ topology = "ring" /\ hasGoal \in BOOLEAN
    /\ HCIdle /\ SAIdle /\ BeamIdle /\ GAIdle /\ CSPIdle
    /\ FnIdle /\ DrvIdle /\ ParIdle /\ ObjInit /\ SHCIdle /\ MoreIdle

NextObj ==
    \/ ObjStart
    \/ ObjSolution
    \/ ObjGeneration
    \/ ObjReturn

SpecObj == InitObj /\ [][NextObj]_vars

\* NQueensState.cost evaluated on the complete placements of the small boards
CompleteBoards ==
    UNION {{[size |-> n, queens |-> q, domains |-> NoDomains] :
               q \in [Rows(n) -> Rows(n)]} : n \in 1..MaxN}

InitCost ==
    /\ landscape = [x \in X |-> 0] /\ topology = "ring" /\ hasGoal = FALSE
    /\ HCIdle /\ SAIdle /\ BeamIdle /\ GAIdle /\ CSPIdle
    /\ fn_pc = "new" /\ fn_arg \in CompleteBoards /\ fn_out = 0
    /\ DrvIdle /\ ParIdle /\ ObjIdle /\ SHCIdle /\ MoreIdle

\* new NQueensState(n, queens).cost
EvalCost ==
    /\ fn_pc = "new"
    /\ fn_out' = NQCost(fn_arg)
    /\ fn_pc' = "done"
    /\ UNCHANGED <<fn_arg, drvVars, parVars, objVars, shcVars, moreVars, problemVars, hcVars, saVars, beamVars, gaVars, cspVars>>

NextCost == EvalCost

\* selectVariable evaluated on the states of Map Coloring that have no two
\* adjacent regions of one colour, for every value the selection box of the
\* board offers for params.variableHeuristic
MapStates ==
    {[MapEmptyState EXCEPT !.assignments = a] :
        a \in {f \in [Regions -> {Null} \cup (0..(DefaultColors - 1))] :
                  \A i \in Regions : \A j \in AustraliaAdjList[i + 1] :
                     f[i] = Null \/ f[i] # f[j]}}

OfferedHeuristics == Heuristics \cup {"degree"}

InitSelect ==
    /\ landscape = [x \in X |-> 0] /\ topology = "ring" /\ hasGoal = FALSE
    /\ HCIdle /\ SAIdle /\ BeamIdle /\ GAIdle
    /\ csp_alg = "forwardChecking" /\ csp_problem = "map-coloring"
    /\ csp_size = 0 /\ csp_maxIterations = 0
    /\ csp_heuristic \in OfferedHeuristics /\ csp_pc = "off"
    /\ csp_frontier = << >> /\ csp_current = NoState /\ csp_loop = NoLoop
    /\ csp_evaluations = 0 /\ csp_steps = 0 /\ csp_rec = NoRec /\ csp_trace = << >>
    /\ fn_pc = "new" /\ fn_arg \in MapStates /\ fn_out = 0
    /\ DrvIdle /\ ParIdle /\ ObjIdle /\ SHCIdle /\ MoreIdle

\* selectVariable(current, problem, params)
EvalSelect ==
    /\ fn_pc = "new"
    /\ fn_out' \in SelectVariable(fn_arg, csp_heuristic)
    /\ fn_pc' = "done"
    /\ UNCHANGED <<fn_arg, drvVars, parVars, objVars, shcVars, moreVars, problemVars, hcVars, saVars, beamVars, gaVars, cspVars>>

NextSelect == EvalSelect

SpecSelect == InitSelect /\ [][NextSelect]_vars

SpecCost == InitCost /\ [][NextCost]_vars

(***************************************************************************)
(* Claims                                                                  *)
(***************************************************************************)
HCAccepted == hc_rec.note \in {"Improved", "Sideways", "Sideways (~)"}

\* C1 (as stated): every accepted state (a record noted Improved or Sideways)
\* costs no more than the state it replaced.
C1_AcceptedNeverWorse ==
    HCAccepted => Cost(hc_rec.state) <= Cost(hc_prev)

\* C1 (amended): an accepted state costs no more than the replaced state's cost
\* times (1 + sidewaysTolerance): strictly less when noted Improved, equal when
\* noted Sideways, and above it only when noted Sideways (~) with a tolerance
\* > 0; beyond that the cost rises only at the first record after a restart.
C1_AcceptedWithinTolerance ==
    /\ hc_rec.note = "Improved" => Cost(hc_rec.state) < Cost(hc_prev)
    /\ hc_rec.note = "Sideways" => Cost(hc_rec.state) = Cost(hc_prev)
    /\ hc_rec.note = "Sideways (~)" =>
          /\ hc_tolerance > 0
          /\ Cost(hc_rec.state) > Cost(hc_prev)
          /\ Cost(hc_rec.state) * 100 <= Cost(hc_prev) * (100 + hc_tolerance)
    /\ (hc_pc # "off" /\ Cost(hc_current) > Cost(hc_prev)) =>
          hc_rec.note \in {"Sideways (~)", "Restart", "Stuck (Local Maxima) - Restarting...",
                           "Stuck (Local Maxima)", "Solution Found!"}

C1_Witness ==
    /\ hc_rec.note = "Sideways (~)"
    /\ Cost(hc_rec.state) > Cost(hc_prev)

\* C2: the temperatures used at two consecutive neighbour-sampling steps satisfy
\* T_{n+1} = T_n x coolingRate, whether the neighbour was accepted or rejected,
\* and so strictly decrease.
C2_TemperatureCools ==
    (sa_pc = "sampled" /\ sa_samples >= 2) =>
        /\ FracEq(sa_rec.temp, FracMul(sa_prevTemp, sa_coolingRate))
        /\ FracLess(sa_rec.temp, sa_prevTemp)
        /\ sa_rec.temp = sa_temp

C2_Witness ==
    /\ sa_pc = "sampled" /\ sa_samples >= 3
    /\ sa_rec.note = "T"
    /\ FracLess(sa_rec.temp, sa_prevTemp)

\* C3: the population carried by every localBeamSearch record (initial,
\* generation, restart, deterministic or stochastic) has exactly beamWidth
\* members, whatever the number of neighbours each member has.
C3_PopulationIsBeamWidth ==
    beam_rec.note # "none" => Len(beam_rec.population) = beam_width

\* a record of generation 0 or of a later generation
GAGenerationRecord == ga_rec.note = "Gen Best"

\* C4: the population carried by every generation record of geneticAlgorithm
\* (generation 0 and every later one) has exactly startingPopulationSize
\* members, for every cullRate in [0, 1) and with elitism on or off.
C4_PopulationIsStartingSize ==
    GAGenerationRecord =>
        /\ Len(ga_rec.population) = ga_size
        /\ ga_rec.population = ga_population

C4_Witness ==
    /\ GAGenerationRecord /\ ga_rec.gen = 2
    /\ ga_cullRate = 50 /\ ~ga_elitism
    /\ ga_size = 3 /\ Len(ga_rec.population) = 3

\* C5: with elitism, the best cost of generation n + 1 is at most the best
\* cost of generation n, whatever crossover and mutation produce.
C5_ElitismNeverWorse ==
    (GAGenerationRecord /\ ga_rec.gen >= 1 /\ ga_elitism) =>
        Cost(ga_rec.state) <= Cost(ga_prevBest)

C5_Witness ==
    /\ GAGenerationRecord /\ ga_rec.gen >= 2 /\ ga_elitism
    /\ ga_mutationRate = 100
    /\ Cost(ga_rec.state) = Cost(ga_prevBest)
    /\ \E i \in 1..Len(ga_population) : Cost(ga_population[i]) > Cost(ga_prevBest)

\* the variables assigned in a state
AssignedVariables(state) ==
    IF csp_problem = "sudoku" THEN FilledCells(state) ELSE AssignedRows(state)

\* the value a state gives to an assigned variable
ValueOf(state, variable) ==
    IF csp_problem = "sudoku"
    THEN state.grid[CellRow(state.size, variable)][CellCol(state.size, variable)]
    ELSE state.queens[variable]

\* solve and the SudokuState constructor cut the grid into the same boxes
BoxesAgree(size) ==
    BoxWidth(size) = SolveBoxWidth(size) /\ BoxHeight(size) = SolveBoxHeight(size)

\* a record of forwardChecking that carries a state
FCEmitted ==
    /\ csp_alg = "forwardChecking"
    /\ csp_rec.note \in {"FC Stack", "Pruned (Wipeout)", "Solution Found!"}

\* C6: every state emitted by forwardChecking, in stack records and in
\* Pruned (wipeout) records alike, has a domain of length exactly 1 for each
\* variable assigned in that state.
C6_AssignedDomainIsSingleton ==
    FCEmitted =>
        \A variable \in AssignedVariables(csp_rec.state) :
            Len(GetDomainValues(csp_rec.state, variable)) = 1

\* the same on the problems whose clues cannot conflict: N-Queens, and
\* Sudoku of a size for which solve and the state use the same boxes
C6_SingletonWhereBoxesAgree ==
    (FCEmitted /\ (csp_problem = "sudoku" => BoxesAgree(csp_size))) =>
        \A variable \in AssignedVariables(csp_rec.state) :
            GetDomainValues(csp_rec.state, variable) = <<ValueOf(csp_rec.state, variable)>>

\* the domains of propagateAC3 are within those of propagate, row by row
AC3WithinFC(state, variable, value) ==
    \A r \in Rows(state.size) :
        Range(PropagateAC3(state, variable, value).domains[r])
            \subseteq Range(Propagate(state, variable, value).domains[r])

\* a node of a propagating search with a variable left to assign
TriedAssignments ==
    IF /\ csp_alg \in PropagatingAlgorithms /\ csp_problem = "n-queens"
       /\ csp_pc \in {"node", "pruned"}
    THEN {a \in (VariableChoices(csp_current) \ {Null}) \X Rows(csp_size) :
             a[2] \in Range(csp_current.domains[a[1]])}
    ELSE {}

\* C7: for every state with domains reached by the search and every
\* assignment tried from it, each domain returned by propagateAC3 is a subset
\* of the domain returned by propagate, whether propagation succeeds or fails.
C7_AC3SubsetOfFC ==
    \A a \in TriedAssignments : AC3WithinFC(csp_current, a[1], a[2])

\* the same, restricted to the assignments on which propagateAC3 succeeds
C7_AC3SubsetOfFCOnSuccess ==
    \A a \in TriedAssignments :
        PropagateAC3(csp_current, a[1], a[2]).success =>
            AC3WithinFC(csp_current, a[1], a[2])

\* C8: each of the five algorithms run with maxIterations = m takes at most
\* m nodes off its frontier and, when the cap is reached before a solution or
\* exhaustion, ends with the stopped-at-limit record.
C8_CapRespected ==
    csp_maxIterations >= 1 =>
        /\ csp_steps <= csp_maxIterations
        /\ (csp_pc = "done" /\ csp_steps = csp_maxIterations
               /\ csp_rec.note # "Solution Found!") =>
              csp_rec.note = "Stopped (Max Iterations)"

\* the scenario of C9: bfs or dfs on the 8-board with maxIterations 10
BlindScenario ==
    /\ csp_pc # "off"
    /\ csp_alg \in {"bfs", "dfs"}
    /\ csp_size = ScenarioSize /\ csp_maxIterations = ScenarioMaxIter

BlindScenarioStopped ==
    /\ csp_pc = "done"
    /\ csp_rec.note = "Stopped (Max Iterations)"
    /\ csp_steps = ScenarioMaxIter

\* C9: bfs and dfs on 8-Queens with maxIterations = 10 end with the record
\* 'Stopped (Max Iterations)' after exactly 10 nodes were expanded, and no
\* record of the run reports a solution.
C9_BlindStopsAtCap ==
    /\ BlindScenario ~> BlindScenarioStopped
    /\ [](BlindScenario => /\ csp_rec.note # "Solution Found!"
                           /\ csp_steps <= ScenarioMaxIter)

C9_Witness ==
    /\ BlindScenario /\ BlindScenarioStopped
    /\ csp_alg = "dfs"
    /\ ~IsPartial(csp_current)

\* the case of C10: a plateau without solution, maxSideways >= 1, no restarts
PlateauRun ==
    /\ beam_pc # "off"
    /\ Plateau /\ ~hasGoal
    /\ beam_maxSideways >= 1
    /\ beam_maxRestarts = 0

BeamStuckWithinBudget ==
    /\ beam_pc = "done"
    /\ beam_rec.note = "Stuck (Max Restarts Reached)"
    /\ beam_sidewaysMoves <= beam_maxSideways
    /\ beam_gen <= beam_maxSideways

\* C10: on a plateau with maxSideways = s >= 1 and no restarts, localBeamSearch
\* ends with a 'Stuck' record after at most s sideways generations, for every
\* beamWidth; it never loops indefinitely.
C10_PlateauEndsStuck == PlateauRun ~> BeamStuckWithinBudget

C10_Witness ==
    /\ PlateauRun /\ BeamStuckWithinBudget
    /\ beam_maxSideways = 2 /\ beam_sidewaysMoves = 2
    /\ beam_width = 2

\* the scenario of C11: backtracking on the 4-board with the default cap
FourQueens == 4

BacktrackingScenario ==
    /\ csp_pc # "off"
    /\ csp_alg = "backtracking" /\ csp_problem = "n-queens"
    /\ csp_size = FourQueens /\ csp_maxIterations = 0

BacktrackingSolved ==
    /\ csp_pc = "done"
    /\ csp_rec.note = "Solution Found!"
    /\ ~IsPartial(csp_rec.state)
    /\ NQCost(csp_rec.state) = 0

\* C11: backtracking on 4-Queens started from the empty state ends with
\* 'Solution Found!' carrying a complete assignment of cost 0, after fewer
\* than 100 nodes were taken off the stack.
C11_BacktrackingSolvesFour ==
    /\ BacktrackingScenario ~> BacktrackingSolved
    /\ [](BacktrackingScenario => csp_steps < 100)

C11_Witness ==
    /\ BacktrackingScenario /\ BacktrackingSolved
    /\ csp_rec.state.queens = [r \in Rows(FourQueens) |-> <<1, 3, 0, 2>>[r + 1]]

\* the queens of a placement that stand on the line for which key has value k
OnLine(state, key(_, _), k) ==
    Cardinality({r \in Rows(state.size) : key(r, state.queens[r]) = k})

\* the pairs among m queens
PairsAmong(m) == (m * (m - 1)) \div 2

RECURSIVE SumOf(_)
\* the sum of the values of a function with a finite domain
SumOf(f) ==
    IF DOMAIN f = {} THEN 0
    ELSE LET k == CHOOSE k \in DOMAIN f : TRUE
         IN f[k] + SumOf([j \in DOMAIN f \ {k} |-> f[j]])

\* the pairs of queens of a complete placement that share a column, a
\* diagonal or an anti-diagonal, counted line by line (two queens of
\* different rows share at most one line)
SharedLinePairs(state) ==
    LET n == state.size
        column(r, c) == c
        diagonal(r, c) == r - c
        antiDiagonal(r, c) == r + c
    IN SumOf([k \in 0..(n - 1) |-> PairsAmong(OnLine(state, column, k))])
       + SumOf([k \in (1 - n)..(n - 1) |-> PairsAmong(OnLine(state, diagonal, k))])
       + SumOf([k \in 0..(2 * n - 2) |-> PairsAmong(OnLine(state, antiDiagonal, k))])

BoardOf(queens) ==
    [size |-> Len(queens), queens |-> [r \in Rows(Len(queens)) |-> queens[r + 1]],
     domains |-> NoDomains]

\* C13: NQueensState.cost of a complete placement is the number of unordered
\* pairs of queens that share a column or a diagonal; [1,3,0,2] costs 0,
\* [0,0,0,0] costs 6 and [0,1] costs 1.
C13_CostCountsAttackingPairs ==
    /\ fn_pc = "done" => fn_out = SharedLinePairs(fn_arg)
    /\ (fn_pc = "done" /\ fn_arg = BoardOf(<<1, 3, 0, 2>>)) => fn_out = 0
    /\ (fn_pc = "done" /\ fn_arg = BoardOf(<<0, 0, 0, 0>>)) => fn_out = 6
    /\ (fn_pc = "done" /\ fn_arg = BoardOf(<<0, 1>>)) => fn_out = 1

C13_Witness ==
    /\ fn_pc = "done"
    /\ fn_arg = BoardOf(<<0, 0, 0, 0>>)
    /\ fn_out = 6

\* the run of C12 has ended on the solution
ConvexSolved ==
    /\ hc_pc = "returned"
    /\ hc_rec.note = "Solution Found!"
    /\ hc_rec.state = 0
    /\ Cost(hc_rec.state) = 0

\* C12: on a one-dimensional convex cost (|x| or x squared) with neighbours
\* x - 1 and x + 1, hillClimbing with default parameters started at any
\* integer of a bounded range reaches x = 0 and its last record is
\* 'Solution Found!' with cost 0.
C12_ConvexReachesZero ==
    /\ (hc_pc = "new") ~> ConvexSolved
    /\ [](hc_pc = "returned" => ConvexSolved)

C12_Witness ==
    /\ ConvexSolved
    /\ hc_evaluations = 2 * (MaxEvals \div 2)
    /\ hc_seen = {<<x, 0, 0>> : x \in 0..(MaxEvals \div 2)}

\* both ways of driving the record sequence have finished
BothFinished == drv_single.finished /\ drv_batch.finished

\* C14: driving the same record sequence through runBatch and through step
\* ends in the same final state, step count and cost history.
C14_BatchMatchesSingle ==
    (drv_records # << >> /\ BothFinished) =>
        /\ drv_single.state = drv_batch.state
        /\ drv_single.stepCount = drv_batch.stepCount
        /\ drv_single.history = drv_batch.history

\* on a record sequence without a solution the two ways of driving agree
C14_AgreeWithoutSolution ==
    (drv_records # << >> /\ BothFinished /\ SolutionState \notin Range(drv_records)) =>
        /\ drv_single.state = drv_batch.state
        /\ drv_single.stepCount = drv_batch.stepCount
        /\ drv_single.history = drv_batch.history

\* the record instance i yields when it runs alone with the same draws
AloneRecord(i) ==
    [state |-> RandomState(NoCities, par_draws[i]).state, note |-> "Initial State"]

\* C15: two instances created on the same Problem, also with the same params
\* object, and advanced in any interleaving each emit the records they emit
\* when run alone with the same random draws.
C15_InstancesIndependent ==
    \A i \in DOMAIN par_recs :
        par_recs[i] # NoRec => par_recs[i] = AloneRecord(i)

\* with a params object each, the instances emit the records of a run alone
C15_IndependentWithOwnParams ==
    \A i \in DOMAIN par_recs :
        (par_recs[i] # NoRec /\ par_params[1] # par_params[2]) =>
            par_recs[i] = AloneRecord(i)

\* C16: no step changes the representation (and with it the cost) of a state
\* object that an earlier record carried; the in-place mutate of the genetic
\* algorithm reaches only offspring that no record has carried yet.
C16_EmittedObjectsUnchanged ==
    \A e \in obj_emitted : obj_heap[e[1]] = e[2]

C16_Witness ==
    /\ obj_pc = "gen" /\ obj_gen = 2
    /\ obj_cfg.rate = 100 /\ obj_cfg.elitism /\ obj_cfg.size = 2
    /\ Cardinality(obj_emitted) = 6
    /\ \E e \in obj_emitted : e[1] \notin Range(obj_population)

\* the configuration the move loop of hillClimbing is in
HCConfiguration == <<hc_current, hc_sidewaysMoves, hc_restarts>>

\* C17: hillClimbing reaches a terminal record after finitely many steps for
\* every maxSideways, maxRestarts and sidewaysTolerance in [0,1). The move
\* taken depends on the configuration only, so a run that terminates whatever
\* the tie-breaks never enters the loop twice in one configuration.
C17_HillClimbingTerminates ==
    hc_pc = "run" => HCConfiguration \notin hc_seen

\* C17, with sidewaysTolerance = 0: no configuration is entered twice
C17_TerminatesWithoutTolerance ==
    (hc_pc = "run" /\ hc_tolerance = 0) => HCConfiguration \notin hc_seen

SATerminalNotes == {"Solution Found!", "Frozen"}

SAEnded == sa_pc = "returned" /\ sa_rec.note \in SATerminalNotes

\* C18: for initialTemp > 0 and coolingRate in (0,1) every simulatedAnnealing
\* run (on states that have neighbours) completes, and its last record is
\* 'Solution Found!' or 'Frozen'.
C18_AnnealingEnds ==
    /\ (sa_pc = "new" /\ topology # "dead") ~> SAEnded
    /\ [](sa_pc \in {"done", "returned"} => sa_rec.note \in SATerminalNotes)

C18_Witness ==
    /\ SAEnded /\ sa_rec.note = "Frozen"
    /\ topology = "ring" /\ ~hasGoal
    /\ sa_samples >= 3

\* C19: the terminal record of a hillClimbing run that ends without restart
\* budget has a note containing 'Stuck' and carries the lowest-cost state the
\* run has reached.
C19_StuckCarriesBest ==
    (hc_pc = "done" /\ hc_rec.note # "Solution Found!") =>
        /\ hc_rec.note = "Stuck (Local Maxima)"
        /\ Cost(hc_rec.state) = MinOf({Cost(c[1]) : c \in hc_seen})

\* C19, as the code has it: the 'Stuck' record carries the state the run is in
C19_StuckCarriesCurrent ==
    (hc_pc = "done" /\ hc_rec.note # "Solution Found!") =>
        /\ hc_rec.note = "Stuck (Local Maxima)"
        /\ hc_rec.state = hc_current
        /\ ~(hc_restarts < hc_maxRestarts)

SAStartsFrozen ==
    sa_pc = "init" /\ ~IsSolution(sa_current) /\ FracLess(sa_temp, FrozenThreshold)

\* C20: the value delivered with done is the terminal record, and
\* simulatedAnnealing started on a non-solution state below the frozen
\* threshold completes on the advance right after its initial record.
C20_DoneDeliversTerminalRecord ==
    /\ [](sa_pc = "returned" => NextResult(sa_pc, sa_rec).value = sa_rec)
    /\ [](hc_pc = "returned" => NextResult(hc_pc, hc_rec).value = hc_rec)
    /\ [][SAStartsFrozen => sa_pc' = "returned"]_vars

\* C20, as the code has it: the terminal record is the value of the last
\* advance that reports done = false, and a run started frozen yields it on
\* the advance right after the initial record
C20_TerminalRecordIsYielded ==
    /\ [](sa_pc = "done" =>
            /\ ~NextResult(sa_pc, sa_rec).done
            /\ NextResult(sa_pc, sa_rec).value.note \in SATerminalNotes)
    /\ [][SAStartsFrozen => (sa_pc' = "done" /\ sa_rec'.note = "Frozen")]_vars
    /\ [][sa_pc = "done" => NextResult(sa_pc', sa_rec') =
                               [value |-> Undefined, done |-> TRUE]]_vars

\* C21: hillClimbing performs at most maxRestarts restarts, no record has a
\* restartCount above maxRestarts, and a run started with a null initial
\* state has called problem.randomState once plus once per restart.
C21_RestartsWithinBudget ==
    /\ hc_restarts <= hc_maxRestarts
    /\ hc_rec # NoRec => hc_rec.restartCount <= hc_maxRestarts
    /\ (hc_initialNull /\ hc_pc \notin {"off", "new"}) =>
           hc_draws = 1 + hc_restarts

C21_Witness ==
    /\ hc_initialNull /\ hc_pc = "returned"
    /\ hc_maxRestarts = MaxRestartsB /\ hc_restarts = MaxRestartsB
    /\ hc_rec.note = "Stuck (Local Maxima)" /\ hc_rec.restartCount = MaxRestartsB
    /\ hc_draws = 1 + MaxRestartsB

GAEndedSolved == ga_pc = "done" /\ IsSolution(ga_best)

\* C22: whenever the best individual of generation N, 0 <= N <= maxGenerations,
\* is a solution, geneticAlgorithm ends with a 'Solution in Gen N' record and
\* produces no later generation: the run that has ended with a solved best
\* ended on that record, for the generation it had reached.
C22_SolvedGenerationEndsRun ==
    GAEndedSolved => (ga_rec.note = "Solution in Gen" /\ ga_rec.gen = ga_gen)

\* C22, for the generations before the last one
C22_SolvedBeforeLastGeneration ==
    /\ []((GAEndedSolved /\ ga_gen < ga_maxGenerations) =>
             (ga_rec.note = "Solution in Gen" /\ ga_rec.gen = ga_gen))
    /\ []((GAEndedSolved /\ ga_gen = ga_maxGenerations) =>
             (ga_rec.note = "Gen Best" /\ ga_rec.gen = ga_gen /\ ga_rec.state = ga_best))
    /\ [][(ga_pc = "gen" /\ IsSolution(ga_best)) => ga_gen' = ga_gen]_vars

\* geneticAlgorithm has left its loop after maxGenerations generations
ObjExhausted == obj_pc = "done" /\ obj_gen = obj_cfg.maxGenerations

\* the state of the last record: best = population[0]
ObjBest == obj_heap[obj_population[1]]

\* C23: when geneticAlgorithm ends with maxGenerations exhausted, the state
\* of its final record is the lowest-cost individual of all generations,
\* with elitism on or off.
C23_FinalIsBestEver ==
    ObjExhausted => Cost(ObjBest) = MinOf({Cost(e[2]) : e \in obj_emitted})

\* C23, with elitism on
C23_FinalIsBestEverWithElitism ==
    (ObjExhausted /\ obj_cfg.elitism) =>
        Cost(ObjBest) = MinOf({Cost(e[2]) : e \in obj_emitted})

\* the states that Pruned records have carried
PrunedStates == {csp_trace[i].state : i \in {j \in 1..Len(csp_trace) : csp_trace[j].kind = "pruned"}}

\* state `later` assigns every variable that `earlier` assigns, to the same
\* value, and at least one more: it lies below `earlier` in the search tree
IsDescendant(later, earlier) ==
    IF csp_problem = "sudoku"
    THEN /\ FilledCells(earlier) \subseteq FilledCells(later)
         /\ FilledCells(earlier) # FilledCells(later)
         /\ \A k \in FilledCells(earlier) :
               later.grid[CellRow(later.size, k)][CellCol(later.size, k)] =
                   earlier.grid[CellRow(earlier.size, k)][CellCol(earlier.size, k)]
    ELSE /\ AssignedRows(earlier) \subseteq AssignedRows(later)
         /\ AssignedRows(earlier) # AssignedRows(later)
         /\ \A r \in AssignedRows(earlier) : later.queens[r] = earlier.queens[r]

\* C24: in forwardChecking a state whose propagation failed is yielded once,
\* in a Pruned record; it is never on the stack, never the node expanded, and
\* no state below it is ever yielded.
C24_WipeoutStateDiscarded ==
    csp_alg = "forwardChecking" =>
        /\ \A i \in 1..Len(csp_trace) : \A j \in 1..Len(csp_trace) :
              (csp_trace[i].kind = "pruned" /\ i # j) =>
                  /\ csp_trace[j].state # csp_trace[i].state
                  /\ ~IsDescendant(csp_trace[j].state, csp_trace[i].state)
        /\ \A failState \in PrunedStates :
              /\ failState # csp_current
              /\ \A k \in 1..Len(csp_frontier) :
                    /\ csp_frontier[k] # failState
                    /\ ~IsDescendant(csp_frontier[k], failState)

C24_Witness ==
    /\ csp_alg = "forwardChecking" /\ csp_problem = "n-queens" /\ csp_size = MaxN
    /\ csp_pc = "done" /\ csp_rec.note = "Solution Found!"
    /\ Cardinality(PrunedStates) >= 2
    /\ \E i \in 1..Len(csp_trace) : \E j \in (i + 1)..Len(csp_trace) :
          csp_trace[i].kind = "pruned" /\ csp_trace[j].kind = "node"

\* C25: a run of forwardChecking or arcConsistency against a Problem without
\* the propagation operation, or of bfs / dfs against a Problem without a
\* successor operation, raises an error at the first use of the operation: it
\* yields no further record and does not end with the exhausted outcome.
C25_MissingOperationRaises ==
    csp_problem = LackingProblem =>
        /\ csp_rec.note \notin {"Pruned (Invalid Move)", "AC-3 Pruned", "No Solution Found"}
        /\ csp_pc \in {"new", "node", "error", "done"}
        /\ csp_pc = "done" => csp_rec.note = "Stopped (Max Iterations)"

\* C25, as the code has it: the missing operation is never reported; the run
\* yields one Pruned record per value of the first variable, or none, and
\* ends with the exhausted outcome
C25_MissingOperationMasked ==
    csp_problem = LackingProblem =>
        /\ csp_pc # "error"
        /\ (csp_pc = "done" /\ csp_rec.note # "Stopped (Max Iterations)") =>
              /\ csp_rec.note = "No Solution Found"
              /\ csp_steps = 1
              /\ Len(csp_trace) = 1 + (IF csp_alg \in PropagatingAlgorithms
                                          THEN csp_size ELSE 0)

\* dfs on TSP with a search tree of fewer nodes than maxIterations
SmallTreeScenario ==
    /\ csp_problem = "tsp" /\ csp_alg = "dfs" /\ csp_pc # "off"
    /\ Cardinality(Tours(csp_size)) < MaxIter(csp_maxIterations)

\* every partial and complete tour has been yielded, each once
EveryTourOnce ==
    /\ {csp_trace[i].state : i \in 1..Len(csp_trace)} =
          {TSPTour(tour, csp_size) : tour \in Tours(csp_size)}
    /\ Len(csp_trace) = Cardinality(Tours(csp_size))

\* C26: when the tree has fewer nodes than maxIterations, dfs on TSP yields
\* every partial and complete tour exactly once and then ends with
\* 'No Solution Found', not with the stopped-at-limit outcome.
C26_DfsExhaustsSmallTree ==
    /\ SmallTreeScenario ~>
          (csp_pc = "done" /\ csp_rec.note = "No Solution Found" /\ EveryTourOnce)
    /\ [](SmallTreeScenario => csp_rec.note # "Stopped (Max Iterations)")

C26_Witness ==
    /\ SmallTreeScenario /\ csp_size = 3 /\ csp_maxIterations = 0
    /\ csp_pc = "done" /\ csp_rec.note = "No Solution Found"
    /\ EveryTourOnce /\ Len(csp_trace) = 16
    /\ csp_trace[4].state = TSPTour(<<0, 1, 2>>, 3)
    /\ csp_trace[16].state = TSPTour(<<2, 1, 0>>, 3)

ForwardCheckingScenario ==
    /\ csp_pc # "off" /\ csp_alg = "forwardChecking"
    /\ csp_problem = "n-queens" /\ csp_size = FourQueens

ForwardCheckingSolved ==
    /\ csp_pc = "done" /\ csp_rec.note = "Solution Found!"
    /\ ~IsPartial(csp_rec.state) /\ NQCost(csp_rec.state) = 0
    /\ csp_rec.state.domains # NoDomains

\* C27: forwardChecking on 4-Queens completes with 'Solution Found!' and a
\* complete state of cost 0 that carries domains, for each of the variable
\* heuristics inOrder, mrv, random and leastConstrained and for every random
\* choice of variable.
C27_ForwardCheckingSolvesFour ==
    /\ ForwardCheckingScenario ~> ForwardCheckingSolved
    /\ []((ForwardCheckingScenario /\ csp_pc = "done") => ForwardCheckingSolved)

C27_Witness ==
    /\ ForwardCheckingScenario /\ ForwardCheckingSolved
    /\ csp_heuristic = "random"
    /\ csp_rec.state.queens = [r \in Rows(FourQueens) |-> <<2, 0, 3, 1>>[r + 1]]
    /\ csp_trace[2].state.queens[0] = Null
    /\ PrunedStates # {}

\* the neighbours of a region that have no colour yet
UnassignedNeighbours(state, variable) ==
    Cardinality({j \in AustraliaAdjList[variable + 1] : state.assignments[j] = Null})

DegreeSelected ==
    /\ csp_problem = "map-coloring" /\ csp_heuristic = "degree"
    /\ fn_pc = "done" /\ fn_out # Null

\* C28: with the heuristic 'degree' the variable selected is an unassigned
\* one with the most unassigned neighbours; from the empty state of the
\* Australia map it is South Australia (index 2, degree 5).
C28_DegreeSelectsMostConstraining ==
    DegreeSelected =>
        /\ fn_arg.assignments[fn_out] = Null
        /\ \A v \in Regions :
              fn_arg.assignments[v] = Null =>
                  UnassignedNeighbours(fn_arg, v) <= UnassignedNeighbours(fn_arg, fn_out)
        /\ fn_arg = MapEmptyState =>
              (fn_out = SouthAustralia /\ UnassignedNeighbours(fn_arg, fn_out) = 5)

\* C28, as the code has it: 'degree' selects what 'inOrder' selects, the
\* first unassigned variable
C28_DegreeSelectsFirst ==
    DegreeSelected =>
        /\ fn_arg.assignments[fn_out] = Null
        /\ \A v \in Regions : v < fn_out => fn_arg.assignments[v] # Null
        /\ fn_arg = MapEmptyState => fn_out = 0

(***************************************************************************)
(* stochasticHillClimbing (algorithms.js 86-241)                           *)
(* the evaluations counter, which no test of the algorithm reads, is left  *)
(* out                                                                     *)
(***************************************************************************)
Variants == {"standard", "weighted", "firstChoice"}

\* a record; n is the number its note carries (`Restart #n`,
\* `Sideways move n/max`), 0 for the other notes
SHCRecord(state, note, n, restarts) ==
    [state |-> state, note |-> note, n |-> n, restartCount |-> restarts]

SHCInit ==
    /\ shc_variant \in Variants
    /\ shc_maxSideways \in 0..MaxSidewaysB
    /\ shc_maxRestarts \in 0..MaxRestartsB
    /\ shc_tolerance \in TolerancePcts
    /\ shc_pc = "new"
    /\ shc_current \in X
    /\ shc_restarts = 0 /\ shc_sidewaysMoves = 0
    /\ shc_rec = NoRec
    /\ shc_resumed = << >>
    /\ shc_streak = 0

SHCConst ==
    UNCHANGED <<shc_variant, shc_maxSideways, shc_maxRestarts, shc_tolerance,
                problemVars, hcVars, saVars, beamVars, gaVars, cspVars,
                fnVars, drvVars, parVars, objVars, moreVars>>

\* lines 155 and 119
BetterNeighbors(x) == {n \in Range(Neighbors(x)) : Cost(n) < Cost(x)}

\* lines 156 and 123
EqualNeighbors(x) == {n \in Range(Neighbors(x)) : Cost(n) = Cost(x)}

\* lines 186-204
SidewaysCandidates(x) ==
    {n \in Range(Neighbors(x)) :
        /\ ~(Cost(n) < Cost(x))
        /\ \/ Cost(n) = Cost(x)
           \/ (shc_tolerance > 0 /\ Cost(n) * 100 <= Cost(x) * (100 + shc_tolerance))}

\* lines 108-148: what the 500 draws of getRandomNeighbor can lead to from
\* `current` with `sideways` sideways moves and `restarts` restarts so far.
\* The draws are any neighbours; the first better one drawn is taken, else the
\* first equal one drawn is the sideways candidate
FirstChoiceOutcomes(current, sideways, restarts) ==
    LET worse == {n \in Range(Neighbors(current)) : Cost(n) > Cost(current)}
        stuck == IF restarts < shc_maxRestarts THEN {} ELSE {[kind |-> "stuck"]}
    IN  {[kind |-> "improved", state |-> n] : n \in BetterNeighbors(current)}
        \cup
        (IF EqualNeighbors(current) = {} THEN {}
         ELSE IF sideways < shc_maxSideways
              THEN {[kind |-> "sideways", state |-> n] : n \in EqualNeighbors(current)}
              ELSE IF restarts < shc_maxRestarts
                   THEN {[kind |-> "sidewaysLimit"]} ELSE {[kind |-> "stuck"]})
        \cup
        (IF worse = {} THEN {}
         ELSE IF restarts < shc_maxRestarts
              THEN {[kind |-> "noMoves"]} ELSE {[kind |-> "stuck"]})

\* lines 150-211: standard and weighted look at all the neighbours; either
\* can take any better neighbour
AllNeighborsOutcomes(current, sideways) ==
    IF BetterNeighbors(current) # {}
    THEN {[kind |-> "improved", state |-> n] : n \in BetterNeighbors(current)}
    ELSE IF SidewaysCandidates(current) # {} /\ sideways < shc_maxSideways
         THEN {[kind |-> "sideways", state |-> n] : n \in SidewaysCandidates(current)}
         ELSE {[kind |-> "stuck"]}

\* lines 98-211: one pass of the inner loop
Iteration(current, sideways, restarts) ==
    IF IsSolution(current) THEN {[kind |-> "solution"]}
    ELSE IF shc_variant = "firstChoice"
         THEN FirstChoiceOutcomes(current, sideways, restarts)
         ELSE AllNeighborsOutcomes(current, sideways)

\* the pass that starts with `current`, `sideways` and `restarts` ends in
\* outcome o: the move is applied (lines 215-227) and the next record yielded
\* (lines 99, 134, 142, 219, 222, 232, 237)
SHCYields(o, current, sideways, restarts) ==
    CASE o.kind = "solution" ->
           /\ shc_pc' = "done"
           /\ shc_current' = current /\ shc_sidewaysMoves' = sideways
           /\ shc_rec' = SHCRecord(current, "Solution Found!", 0, restarts)
      [] o.kind = "improved" ->
           /\ shc_pc' = "run"
           /\ shc_current' = o.state /\ shc_sidewaysMoves' = 0
           /\ shc_rec' = SHCRecord(o.state, "Improved", 0, restarts)
      [] o.kind = "sideways" ->
           /\ shc_pc' = "run"
           /\ shc_current' = o.state /\ shc_sidewaysMoves' = sideways + 1
           /\ shc_rec' = SHCRecord(o.state, "Sideways move", sideways + 1, restarts)
      [] o.kind = "noMoves" ->
           /\ shc_pc' = "restartingInner"
           /\ shc_current' = current /\ shc_sidewaysMoves' = sideways
           /\ shc_rec' = SHCRecord(current, "Stuck (Checked 500, No moves) - Restarting...",
                                   0, restarts)
      [] o.kind = "sidewaysLimit" ->
           /\ shc_pc' = "restartingInner"
           /\ shc_current' = current /\ shc_sidewaysMoves' = sideways
           /\ shc_rec' = SHCRecord(current, "Stuck (Sideways limit) - Restarting...",
                                   shc_maxSideways, restarts)
      [] OTHER ->
           /\ shc_pc' = IF restarts < shc_maxRestarts THEN "restarting" ELSE "done"
           /\ shc_current' = current /\ shc_sidewaysMoves' = sideways
           /\ shc_rec' = SHCRecord(current,
                                   IF restarts < shc_maxRestarts
                                      THEN "Stuck (Local Maxima) - Restarting..."
                                      ELSE "Stuck (Local Maxima)",
                                   0, restarts)

\* the sideways moves accepted in a row once outcome o is applied
StreakAfter(o, streak) ==
    CASE o.kind = "improved" -> 0
      [] o.kind = "sideways" -> streak + 1
      [] OTHER -> streak

\* first advance: lines 89-95, the 'Initial State' record
SHCStart ==
    /\ shc_pc = "new"
    /\ shc_sidewaysMoves' = 0
    /\ shc_rec' = SHCRecord(shc_current, "Initial State", 0, shc_restarts)
    /\ shc_pc' = "run"
    /\ shc_streak' = 0
    /\ UNCHANGED <<shc_current, shc_restarts, shc_resumed>>
    /\ SHCConst

\* an advance from a record after which the inner loop goes on
SHCIterate ==
    /\ shc_pc = "run"
    /\ \E o \in Iteration(shc_current, shc_sidewaysMoves, shc_restarts) :
          /\ SHCYields(o, shc_current, shc_sidewaysMoves, shc_restarts)
          /\ shc_streak' = StreakAfter(o, shc_streak)
    /\ UNCHANGED <<shc_restarts, shc_resumed>>
    /\ SHCConst

\* lines 233-235 then 93-95: the advance after 'Stuck (Local Maxima) -
\* Restarting...' goes round the outer loop: sidewaysMoves is declared anew
\* and the `Restart #n` record is yielded
SHCRestart ==
    /\ shc_pc = "restarting"
    /\ \E fresh \in X :
          /\ shc_current' = fresh
          /\ shc_restarts' = shc_restarts + 1
          /\ shc_sidewaysMoves' = 0
          /\ shc_resumed' = Append(shc_resumed, 0)
          /\ shc_streak' = 0
          /\ shc_rec' = SHCRecord(fresh, "Restart #", shc_restarts + 1, shc_restarts + 1)
    /\ shc_pc' = "run"
    /\ SHCConst

\* lines 135-138 and 143-146: the advance after a firstChoice 'Restarting...'
\* record draws the fresh state and `continue`s the inner loop, whose next
\* pass runs up to the next record
SHCInnerRestart ==
    /\ shc_pc = "restartingInner"
    /\ \E fresh \in X :
          /\ shc_restarts' = shc_restarts + 1
          /\ shc_resumed' = Append(shc_resumed, shc_sidewaysMoves)
          /\ \E o \in Iteration(fresh, shc_sidewaysMoves, shc_restarts + 1) :
                /\ SHCYields(o, fresh, shc_sidewaysMoves, shc_restarts + 1)
                /\ shc_streak' = StreakAfter(o, 0)
    /\ SHCConst

\* lines 100 and 238: the advance after a terminal record
SHCReturn ==
    /\ shc_pc = "done"
    /\ shc_pc' = "returned"
    /\ UNCHANGED <<shc_current, shc_restarts, shc_sidewaysMoves, shc_rec, shc_resumed,
                   shc_streak>>
    /\ SHCConst

InitSHC ==
    /\ ProblemInit /\ topology \in {"ring", "self"}
    /\ HCIdle /\ SAIdle /\ BeamIdle /\ GAIdle /\ CSPIdle
    /\ FnIdle /\ DrvIdle /\ ParIdle /\ ObjIdle /\ SHCInit /\ MoreIdle

NextSHC == SHCStart \/ SHCIterate \/ SHCRestart \/ SHCInnerRestart \/ SHCReturn

SpecSHC == InitSHC /\ [][NextSHC]_vars

\* C29: after every restart, in hillClimbing and in every variant of
\* stochasticHillClimbing, the sideways counter is 0 when the search resumes
\* from the fresh random state
C29_RestartResetsSideways ==
    /\ \A i \in 1..Len(shc_resumed) : shc_resumed[i] = 0
    /\ hc_rec.note = "Restart" => hc_sidewaysMoves = 0

\* what holds: the restarts of the standard and weighted variants reset the
\* counter, those of firstChoice keep it
C29_RestartKeepsSidewaysInFirstChoice ==
    \A i \in 1..Len(shc_resumed) :
        \/ shc_resumed[i] = 0
        \/ shc_variant = "firstChoice"

\* the sampling step of simulatedAnnealing that draws neighbour n
SADraws(n) == (SAImproved \/ SAAcceptedWorse \/ SAStay) /\ sa_next' = n

\* the step leaves the search where it is and yields the plain `T=` record
SARemains == sa_current' = sa_current /\ sa_rec'.note = "T"

\* C30: in simulatedAnnealing a drawn neighbour of strictly lower cost always
\* becomes the current state, and after drawing a neighbour that is not
\* strictly better, one of equal cost included, remaining at the current
\* state is a possible outcome of the step
C30_NotBetterCanBeRejected ==
    SACanSample =>
        \A n \in Range(Neighbors(sa_current)) :
            IF Cost(n) < Cost(sa_current)
            THEN ~ENABLED (SADraws(n) /\ sa_current' # n)
            ELSE ENABLED (SADraws(n) /\ SARemains)

\* what holds: the better neighbour is always taken, the strictly worse one
\* can be rejected, and the neighbour of equal cost is always accepted, with
\* the 'Accepted worse' record
C30_EqualAlwaysAccepted ==
    SACanSample =>
        \A n \in Range(Neighbors(sa_current)) :
            /\ Cost(n) < Cost(sa_current) => ~ENABLED (SADraws(n) /\ sa_current' # n)
            /\ Cost(n) > Cost(sa_current) => ENABLED (SADraws(n) /\ SARemains)
            /\ Cost(n) = Cost(sa_current) =>
                  /\ ~ENABLED (SADraws(n) /\ sa_rec'.note # "T (Accepted worse)")
                  /\ ENABLED (SADraws(n) /\ sa_current' = n)

\* hillClimbing or stochasticHillClimbing runs
InitClimb == InitHC \/ InitSHC

NextClimb == NextHC \/ NextSHC

SpecClimb == InitClimb /\ [][NextClimb]_vars

\* C31: between two consecutive Improved moves or restarts hillClimbing and
\* stochasticHillClimbing accept at most maxSideways sideways moves, and with
\* maxSideways = 0 they accept none
C31_SidewaysWithinBudget ==
    /\ hc_streak <= hc_maxSideways
    /\ shc_streak <= shc_maxSideways
    /\ hc_maxSideways = 0 => hc_rec.note \notin {"Sideways", "Sideways (~)"}
    /\ shc_maxSideways = 0 => shc_rec.note # "Sideways move"

\* a climb that used its whole sideways budget and then stopped
C31_Witness ==
    /\ hc_pc = "done" /\ hc_rec.note = "Stuck (Local Maxima)"
    /\ hc_maxSideways = MaxSidewaysB
    /\ hc_streak = hc_maxSideways

\* forwardChecking and arcConsistency on N-Queens and on the Australia map
\* with 1..DefaultColors colours; neither algorithm reads maxIterations
InitProp ==
    /\ landscape = [x \in X |-> 0] /\ topology = "ring" /\ hasGoal = FALSE
    /\ HCIdle /\ SAIdle /\ BeamIdle /\ GAIdle /\ ExtrasIdle
    /\ csp_alg \in PropagatingAlgorithms
    /\ \E cfg \in ({"n-queens"} \X (1..MaxQueens))
                   \cup ({"map-coloring"} \X (1..DefaultColors)) :
          csp_problem = cfg[1] /\ csp_size = cfg[2]
    /\ csp_maxIterations = 0
    /\ csp_heuristic \in Heuristics
    \* the random choice among seven regions is left to the smaller boards
    /\ csp_problem = "map-coloring" => csp_heuristic # "random"
    /\ csp_pc = "new"
    /\ csp_frontier = << >> /\ csp_current = NoState /\ csp_loop = NoLoop
    /\ csp_evaluations = 0 /\ csp_steps = 0 /\ csp_rec = NoRec /\ csp_trace = << >>

SpecProp == InitProp /\ [][NextFC]_vars

\* sequence a has no value twice and is b with some values left out
IsSubSequence(a, b) ==
    /\ \A i \in 1..Len(a) : \A j \in 1..Len(a) : a[i] = a[j] => i = j
    /\ \A i \in 1..Len(a) : \E k \in 1..Len(b) : b[k] = a[i]
    /\ \A i \in 1..Len(a) : \A j \in (i + 1)..Len(a) :
          \E k \in 1..Len(b) : \E l \in (k + 1)..Len(b) : b[k] = a[i] /\ b[l] = a[j]

\* every domain of the child is a sub-sequence of the parent's
DomainsShrink(child, parent) ==
    \A v \in DOMAIN parent.domains : IsSubSequence(child.domains[v], parent.domains[v])

\* the states that the step made from the node expanded: the children pushed,
\* and with them the broken state of a Pruned record
PushedByStep ==
    (Range(csp_frontier') \cup {csp_current'}) \ (Range(csp_frontier) \cup {csp_current})

MadeByStep == PushedByStep \cup (IF csp_pc' = "pruned" THEN {csp_rec'.state} ELSE {})

\* C32: along every branch of the forwardChecking and arcConsistency search
\* each domain of a child state is a sub-sequence of the same domain of its
\* parent: values are only removed, their order is kept, none appears twice
C32_DomainsOnlyShrink ==
    [][(csp_pc \in {"node", "pruned"}) =>
          (\A child \in MadeByStep : DomainsShrink(child, csp_current))]_vars

\* a child whose propagation removed values from the domain of a variable
\* that has no value yet
C32_Witness ==
    /\ csp_pc = "node" /\ csp_steps > 1
    /\ csp_problem = "map-coloring" /\ csp_alg = "arcConsistency"
    /\ \E v \in Regions :
          /\ csp_current.assignments[v] = Null
          /\ Len(csp_current.domains[v]) < csp_current.numColors

\* the binary constraint between variable xi with value x and xj with y
Compatible(xi, x, xj, y) ==
    IF csp_problem = "map-coloring" THEN x # y
    ELSE x # y /\ Abs(xi - xj) # Abs(x - y)

\* the ordered pairs of distinct variables that a constraint links
ConstrainedPairs(state) ==
    IF csp_problem = "map-coloring"
    THEN {<<i, j>> \in Regions \X Regions : j \in AustraliaAdjList[i + 1]}
    ELSE {<<i, j>> \in Rows(state.size) \X Rows(state.size) : i # j}

\* no domain is empty and every value has a support across every constraint
ArcConsistent(state) ==
    /\ \A v \in DOMAIN state.domains : state.domains[v] # << >>
    /\ \A p \in ConstrainedPairs(state) :
          \A x \in Range(state.domains[p[1]]) :
             \E y \in Range(state.domains[p[2]]) : Compatible(p[1], x, p[2], y)

\* C33: whenever propagateAC3 reports success for an assignment made from
\* arc-consistent domains, the domains it returns are arc-consistent and
\* none of them is empty
C33_AC3LeavesArcConsistent ==
    [][(csp_alg = "arcConsistency" /\ csp_pc \in {"node", "pruned"}
           /\ ArcConsistent(csp_current)) =>
          (\A child \in PushedByStep : ArcConsistent(child))]_vars

\* a child of the arc-consistent root of 4-Queens or of the map, taken off
\* the stack with the domains AC-3 left it
C33_Witness ==
    /\ csp_alg = "arcConsistency" /\ csp_pc = "node" /\ csp_steps = 2
    /\ ArcConsistent(csp_trace[1].state)
    /\ ArcConsistent(csp_current)
    /\ \E v \in DOMAIN csp_current.domains :
          Len(csp_current.domains[v]) < Len(csp_trace[1].state.domains[v])

\* the variables without a value in state
Unassigned(state) == Range(UnassignedVariables(state))

\* the variable the step expanded: the one that the states made from the
\* node give a value to
ExpandedVariables ==
    {v \in Unassigned(csp_current) :
        \E child \in MadeByStep : v \notin Unassigned(child)}

\* C34: variableHeuristic governs the variable selection of arcConsistency
\* as it does that of forwardChecking: the variable expanded at a node is one
\* that selectVariable returns for the node and the setting, and with 'mrv'
\* it is an unassigned variable with the smallest domain
C34_AC3FollowsHeuristic ==
    [][(csp_alg = "arcConsistency" /\ csp_pc = "node") =>
          (\A v \in ExpandedVariables :
              /\ v \in SelectVariable(csp_current, csp_heuristic)
              /\ csp_heuristic = "mrv" =>
                    \A u \in Unassigned(csp_current) :
                       GetDomainSize(csp_current, v) <= GetDomainSize(csp_current, u))]_vars

\* what holds: arcConsistency expands the first variable without a value
\* whatever the setting, forwardChecking the variable selectVariable returns
C34_AC3ExpandsInOrder ==
    [][(csp_pc = "node") =>
          (\A v \in ExpandedVariables :
              IF csp_alg = "arcConsistency"
              THEN v = Head(UnassignedVariables(csp_current))
              ELSE v \in SelectVariable(csp_current, csp_heuristic))]_vars

(***************************************************************************)
(* forwardChecking / arcConsistency with the domains arrays as objects: a  *)
(* state on the stack is [obj, ref], obj the state as applyMove built it   *)
(* and ref the array its domains property points to; frm_heap holds what   *)
(* each array contains now.                                                *)
(***************************************************************************)
\* the state as a read of its properties finds it now
Deref(h) == [h.obj EXCEPT !.domains = frm_heap[h.ref]]

WriteDomainsInPlace(heap, ref, domains) ==
    [heap |-> [heap EXCEPT ![ref] = domains], ref |-> ref]

\* propagate / propagateAC3 write into a deep copy of state.domains
\* (n-queens.js 672, 699; sudoku.js 534, 545; map-coloring.js 456, 472) and
\* return the copy: a new array holds the result, the array at ref is left
WriteDomains(heap, ref, domains) ==
    [heap |-> Append(heap, domains), ref |-> Len(heap) + 1]

FrmConfigs(alg) ==
    ({"n-queens"} \X (1..MaxN))
    \cup ({"map-coloring"} \X (1..DefaultColors))
    \cup (IF alg = "forwardChecking" THEN {"sudoku"} \X SudokuSizes(MaxSudokuN) ELSE {})

InitFrame ==
    /\ landscape = [x \in X |-> 0] /\ topology = "ring" /\ hasGoal = FALSE
    /\ HCIdle /\ SAIdle /\ BeamIdle /\ GAIdle
    /\ FnIdle /\ DrvIdle /\ ParIdle /\ ObjIdle /\ SHCIdle
    /\ csp_alg \in PropagatingAlgorithms
    /\ \E cfg \in FrmConfigs(csp_alg) : csp_problem = cfg[1] /\ csp_size = cfg[2]
    /\ csp_maxIterations = 0
    /\ csp_heuristic \in Heuristics \ {"random"}
    /\ csp_pc = "off"
    /\ csp_frontier = << >> /\ csp_current = NoState /\ csp_loop = NoLoop
    /\ csp_evaluations = 0 /\ csp_steps = 0 /\ csp_rec = NoRec /\ csp_trace = << >>
    /\ frm_pc = "new" /\ frm_heap = << >> /\ frm_current = << >>
    /\ frm_stack = << >> /\ frm_loop = << >>
    /\ BmIdle

FrmConst ==
    UNCHANGED <<problemVars, hcVars, saVars, beamVars, gaVars, cspVars,
                fnVars, drvVars, parVars, objVars, shcVars, bmVars>>

\* lines 296-327 and 394-412: the root gets the array initializeDomains
\* returns and is taken off the stack
FrmStart ==
    /\ frm_pc = "new"
    /\ \E root \in Roots :
          /\ frm_heap' = <<root.domains>>
          /\ frm_current' = [obj |-> root, ref |-> 1]
    /\ frm_stack' = << >>
    /\ frm_pc' = "node"
    /\ UNCHANGED frm_loop
    /\ FrmConst

\* lines 329-332 and 414-417
FrmSolution ==
    /\ frm_pc = "node"
    /\ CSPIsSolution(Deref(frm_current))
    /\ frm_pc' = "done"
    /\ UNCHANGED <<frm_heap, frm_current, frm_stack, frm_loop>>
    /\ FrmConst

\* lines 335-353 and 419-423: the variable is selected and the value loop
\* starts at the last value of its domain
FrmSelect ==
    /\ frm_pc = "node"
    /\ ~CSPIsSolution(Deref(frm_current))
    /\ \E variable \in VariableChoices(Deref(frm_current)) :
          frm_loop' = [variable |-> variable,
                       i |-> IF variable = Null THEN -1
                             ELSE Len(GetDomainValues(Deref(frm_current), variable)) - 1]
    /\ frm_pc' = "loop"
    /\ UNCHANGED <<frm_heap, frm_current, frm_stack>>
    /\ FrmConst

\* lines 356-381 and 425-445: one value is tried; what propagation returns
\* is handed to applyMove, and the state is pushed unless a domain is empty
FrmTry ==
    /\ frm_pc = "loop"
    /\ frm_loop.i >= 0
    /\ LET node == Deref(frm_current)
           value == GetDomainValues(node, frm_loop.variable)[frm_loop.i + 1]
           result == PropagateFor(csp_alg, node, frm_loop.variable, value)
           written == WriteDomains(frm_heap, frm_current.ref, result.domains)
           child == [obj |-> Move(node, frm_loop.variable, value, written.heap[written.ref]),
                     ref |-> written.ref]
       IN /\ frm_heap' = written.heap
          /\ frm_stack' = IF result.success THEN Append(frm_stack, child) ELSE frm_stack
    /\ frm_loop' = [frm_loop EXCEPT !.i = frm_loop.i - 1]
    /\ UNCHANGED <<frm_pc, frm_current>>
    /\ FrmConst

\* lines 324-325 and 409-410: the loop is over and the next state is popped
FrmPop ==
    /\ frm_pc = "loop"
    /\ frm_loop.i < 0
    /\ frm_stack # << >>
    /\ frm_current' = Last(frm_stack)
    /\ frm_stack' = Front(frm_stack)
    /\ frm_pc' = "node"
    /\ UNCHANGED <<frm_heap, frm_loop>>
    /\ FrmConst

\* lines 387-388 and 449-450
FrmExhausted ==
    /\ frm_pc = "loop"
    /\ frm_loop.i < 0
    /\ frm_stack = << >>
    /\ frm_pc' = "done"
    /\ UNCHANGED <<frm_heap, frm_current, frm_stack, frm_loop>>
    /\ FrmConst

NextFrame == FrmStart \/ FrmSolution \/ FrmSelect \/ FrmTry \/ FrmPop \/ FrmExhausted

SpecFrame == InitFrame /\ [][NextFrame]_vars

\* the node and the states on the stack
FrmLive ==
    IF frm_pc \in {"off", "new"} THEN {} ELSE Range(frm_stack) \cup {frm_current}

\* C35: forward-checking and AC-3 propagation never modify the domains of
\* the state they are applied to: whatever values have been tried at a node,
\* the node and every state on the stack have the domains they were built
\* with
C35_PropagationLeavesDomains ==
    \A h \in FrmLive : frm_heap[h.ref] = h.obj.domains

\* the value loop of a node has tried all its values (at least two) and pushed
\* a state, with an earlier state still on the stack
C35_Witness ==
    /\ frm_pc = "loop" /\ frm_loop.variable # Null /\ frm_loop.i < 0
    /\ Len(GetDomainValues(Deref(frm_current), frm_loop.variable)) >= 2
    /\ Len(frm_stack) >= 2
    /\ frm_current.ref > 1

(***************************************************************************)
(* backtracking, forwardChecking and arcConsistency on the same boards     *)
(***************************************************************************)
PruningAlgorithms == {"backtracking"} \cup PropagatingAlgorithms

\* N-Queens of the sizes 1..MaxQueens with the default iteration cap
InitOutcome ==
    /\ landscape = [x \in X |-> 0] /\ topology = "ring" /\ hasGoal = FALSE
    /\ HCIdle /\ SAIdle /\ BeamIdle /\ GAIdle /\ ExtrasIdle
    /\ csp_alg \in PruningAlgorithms
    /\ csp_problem = "n-queens" /\ csp_size \in 1..MaxQueens
    /\ csp_maxIterations = 0
    /\ csp_heuristic \in Heuristics
    /\ csp_pc = "new"
    /\ csp_frontier = << >> /\ csp_current = NoState /\ csp_loop = NoLoop
    /\ csp_evaluations = 0 /\ csp_steps = 0 /\ csp_rec = NoRec /\ csp_trace = << >>

\* the default cap of backtracking is never reached on these boards (see
\* C36_SameOutcome), so its 'Stopped' branch is not among the steps
SpecOutcome == InitOutcome /\ [][NextFC]_vars

\* some placement of n queens, one per row, is a solution
HasSolution(n) ==
    \E queens \in [Rows(n) -> Rows(n)] :
        NQIsSolution([EmptyState(n) EXCEPT !.queens = queens])

\* C36: on N-Queens with N in 1..5 backtracking, forwardChecking and
\* arcConsistency end alike: with 'Solution Found!' and a complete state of
\* cost 0 where a solution exists (N = 1, 4, 5), with 'No Solution Found'
\* where none exists (N = 2, 3)
C36_SameOutcome ==
    /\ csp_steps < MaxIter(csp_maxIterations)
    /\ csp_pc = "done" =>
       /\ csp_size \in 1..5 => (HasSolution(csp_size) <=> csp_size \in {1, 4, 5})
       /\ IF HasSolution(csp_size)
          THEN /\ csp_rec.note = "Solution Found!"
               /\ ~IsPartial(csp_rec.state)
               /\ NQCost(csp_rec.state) = 0
          ELSE csp_rec.note = "No Solution Found"

\* arcConsistency has found a solution of the largest board after a value
\* was pruned
C36_Witness ==
    /\ csp_pc = "done" /\ csp_alg = "arcConsistency" /\ csp_size = MaxQueens
    /\ csp_rec.note = "Solution Found!"
    /\ \E k \in 1..Len(csp_trace) : csp_trace[k].kind = "pruned"

\* C37: the evaluations count carried by the successive records of one run
\* never decreases from one record to the next, the Pruned / wipeout records
\* of forwardChecking and arcConsistency included
C37_EvaluationsNeverDecrease ==
    [][(csp_rec # NoRec /\ csp_rec' # NoRec) =>
          (csp_rec'.evaluations >= csp_rec.evaluations)]_vars

\* the counter behind the records never decreases, and a record carries the
\* counter or, when it reports a pruned value, the counter plus one
C37_CounterNeverDecreases ==
    [][/\ csp_evaluations' >= csp_evaluations
       /\ csp_rec' # NoRec =>
             (csp_rec'.evaluations - csp_evaluations') \in
                 (IF csp_pc' = "pruned" THEN {1} ELSE {0})]_vars

\* C38: with maxSideways = 0 localBeamSearch goes on to the next generation
\* after every generation labelled Improved: unless the state is a solution,
\* maxGenerations is reached or the candidate pool is empty, the advance
\* after an Improved record yields the record of another generation
C38_ContinuesAfterImproved ==
    [][(/\ beam_maxSideways = 0
        /\ beam_pc = "gen" /\ beam_rec.note = "Improved"
        /\ ~IsSolution(beam_best)
        /\ beam_gen + 1 <= beam_maxGenerations
        /\ AllSuccessors(beam_population) # <<>>)
       => (beam_pc' = "gen" /\ beam_gen' = beam_gen + 1)]_vars

\* with maxSideways = 0 a beam has one generation at most, Improved or not,
\* and the advance after its record abandons the beam or reports a solution
C38_OneGenerationPerBeam ==
    /\ beam_maxSideways = 0 => beam_gen <= 1
    /\ (beam_maxSideways = 0 /\ beam_pc = "gen") => ~ENABLED BeamGeneration

\* a generation is about to be bred from the population
GABreeds == GAEntersGeneration /\ ~IsSolution(ga_best)

\* C39: for every startingPopulationSize >= 1 and every cullRate in [0, 1)
\* the survivors left after culling are not empty, so that elitism and
\* tournament selection have an individual to take
C39_SurvivorsNonEmpty ==
    GABreeds => Survivors(ga_population, ga_cullRate) # <<>>

\* the survivors are the first floor(size * (1 - cullRate)) members: they are
\* empty exactly when size * (1 - cullRate) < 1, and the generation then
\* throws; otherwise every parent of a tournament is one of them
C39_SurvivorsAreKeptPrefix ==
    /\ GABreeds =>
          /\ Survivors(ga_population, ga_cullRate) = << >>
                <=> Len(ga_population) * (100 - ga_cullRate) < 100
          /\ TournamentSelect(Survivors(ga_population, ga_cullRate))
                \subseteq Range(ga_population)
    /\ ga_pc = "error" => Len(ga_population) * (100 - ga_cullRate) < 100

(***************************************************************************)
(* BenchmarkRunner (core/benchmark.js). run() is an async function: it     *)
(* runs without interruption up to `await new Promise(r => setTimeout(r,   *)
(* 0))` after each algorithm run (line 225), its only suspension point;    *)
(* cancel() can only arrive while run() is suspended there.                *)
(***************************************************************************)
\* BENCHMARK_CONFIGS: the algorithm of each configuration
BENCHMARK_CONFIGS ==
    <<"hillClimbing", "stochasticHillClimbing", "localBeamSearch",
      "simulatedAnnealing", "simulatedAnnealing", "simulatedAnnealing",
      "geneticAlgorithm", "bfs", "dfs", "backtracking", "forwardChecking",
      "arcConsistency">>

\* getValidConfigs: without supportsCSP the three CSP algorithms are left out
GetValidConfigs(supportsCSP) ==
    SelectSeq(BENCHMARK_CONFIGS,
              LAMBDA algorithm :
                  supportsCSP
                  \/ algorithm \notin {"backtracking", "forwardChecking", "arcConsistency"})

\* const numSeeds = 5
NumSeeds == 5

\* const totalRuns = numSeeds * validConfigs.length
TotalRuns == NumSeeds * Len(GetValidConfigs(bm_supportsCSP))

BmInit ==
    /\ bm_pc = "new" /\ bm_supportsCSP \in BOOLEAN /\ bm_isRunning = FALSE
    /\ bm_cancelFlag = FALSE /\ bm_seed = 0 /\ bm_config = 0
    /\ bm_completedRuns = 0 /\ bm_result = "pending" /\ bm_cancelledAt = << >>

BmConst ==
    UNCHANGED <<problemVars, hcVars, saVars, beamVars, gaVars, cspVars,
                fnVars, drvVars, parVars, objVars, shcVars, frmVars, bm_supportsCSP>>

\* lines 96-98, called by the application (App.jsx 222) at any time run() is
\* not executing
BmCancel ==
    /\ bm_pc \in {"new", "await", "resolved"}
    /\ bm_cancelFlag' = TRUE
    /\ bm_cancelledAt' = IF bm_pc = "await" /\ bm_cancelledAt = << >>
                            THEN <<bm_completedRuns>> ELSE bm_cancelledAt
    /\ UNCHANGED <<bm_pc, bm_isRunning, bm_seed, bm_config, bm_completedRuns, bm_result>>
    /\ BmConst

\* lines 100-225: run() is called; the flag is cleared and the first
\* configuration runs on the first seed, up to the await
BmRun ==
    /\ bm_pc = "new"
    /\ bm_isRunning' = TRUE
    /\ bm_cancelFlag' = FALSE
    /\ bm_seed' = 0 /\ bm_config' = 1
    /\ bm_completedRuns' = 1
    /\ bm_pc' = "await"
    /\ UNCHANGED <<bm_result, bm_cancelledAt>>
    /\ BmConst

\* the loops of lines 133 and 136 have another configuration or seed
BmHasNext ==
    \/ bm_config < Len(GetValidConfigs(bm_supportsCSP))
    \/ bm_seed + 1 < NumSeeds

\* line 137: if (this.cancelFlag)
BmCancelled == bm_cancelFlag

\* the timer fires; lines 136-225: the next configuration (on the next seed
\* after the last one) runs, up to the await
BmNextRun ==
    /\ bm_pc = "await"
    /\ BmHasNext
    /\ ~BmCancelled
    /\ IF bm_config < Len(GetValidConfigs(bm_supportsCSP))
       THEN bm_config' = bm_config + 1 /\ UNCHANGED bm_seed
       ELSE bm_config' = 1 /\ bm_seed' = bm_seed + 1
    /\ bm_completedRuns' = bm_completedRuns + 1
    /\ UNCHANGED <<bm_pc, bm_isRunning, bm_cancelFlag, bm_result, bm_cancelledAt>>
    /\ BmConst

\* the timer fires; line 137: return null
BmReturnNull ==
    /\ bm_pc = "await"
    /\ BmHasNext
    /\ BmCancelled
    /\ bm_result' = "null"
    /\ bm_pc' = "resolved"
    /\ UNCHANGED <<bm_isRunning, bm_cancelFlag, bm_seed, bm_config, bm_completedRuns,
                   bm_cancelledAt>>
    /\ BmConst

\* the timer fires after the last run; both loops end and lines 229-255
\* return the aggregated results
BmAggregate ==
    /\ bm_pc = "await"
    /\ ~BmHasNext
    /\ bm_result' = "finalStats"
    /\ bm_pc' = "resolved"
    /\ UNCHANGED <<bm_isRunning, bm_cancelFlag, bm_seed, bm_config, bm_completedRuns,
                   bm_cancelledAt>>
    /\ BmConst

InitBenchmark ==
    /\ landscape = [x \in X |-> 0] /\ topology = "ring" /\ hasGoal = FALSE
    /\ HCIdle /\ SAIdle /\ BeamIdle /\ GAIdle /\ CSPIdle
    /\ FnIdle /\ DrvIdle /\ ParIdle /\ ObjIdle /\ SHCIdle /\ FrmIdle
    /\ BmInit

NextBenchmark == BmCancel \/ BmRun \/ BmNextRun \/ BmReturnNull \/ BmAggregate

SpecBenchmark == InitBenchmark /\ [][NextBenchmark]_vars

\* C40: if cancel() is called while run() is in progress, at whichever
\* suspension point it arrives, run() starts no further algorithm run and
\* resolves to null, not to aggregated results
C40_CancelResolvesNull ==
    bm_cancelledAt # << >> =>
       /\ bm_completedRuns = bm_cancelledAt[1]
       /\ bm_pc = "resolved" => bm_result = "null"

\* after a cancel() during run() no further run is started, and run()
\* resolves to null unless the cancel() arrived at the await after the last
\* run, where it resolves to the aggregated results
C40_CancelStopsRuns ==
    bm_cancelledAt # << >> =>
       /\ bm_completedRuns = bm_cancelledAt[1]
       /\ bm_pc = "resolved" =>
             bm_result = (IF bm_cancelledAt[1] < TotalRuns THEN "null" ELSE "finalStats")

====
